---- MODULE Spec2Model ----
(***************************************************************************)
(* Visual digit replacement engine of src/src/lib/smartErase.ts.           *)
(*                                                                         *)
(* A text is a sequence of one-character strings.  A pixel is its three    *)
(* colour bytes packed into one number; an image is [data, width, height]  *)
(* where data maps the pixel key y * width + x to the pixel (the RGBA      *)
(* array of ImageData with the alpha byte, which the engine never reads or *)
(* writes, left out).                                                      *)
(* Luminance is kept exact as 1000 * (0.299 r + 0.587 g + 0.114 b).        *)
(* A box is [xn, yn, d, width, height]: x = xn / d and y = yn / d, so that *)
(* the re-centred boxes the engine derives from blob centroids keep their  *)
(* fractional part.                                                        *)
(* Phase 2 is recorded as the sequence of texts handed to fillText; the    *)
(* glyph rasterisation of the browser is outside the engine.               *)
(***************************************************************************)
EXTENDS Integers, Sequences, FiniteSets, TLC

\* ------------------------------------------------------------------------
\* Bounds of the model
\* ------------------------------------------------------------------------

\* longest token text the generator and the classifier are tried on
MaxTextLen == 2

\* characters token texts are built from: two digits and a non-digit
TextChars == {"0", "7", "."}

\* the token texts tried: every text of at most MaxTextLen characters
Texts == UNION {[1..n -> TextChars] : n \in 0..MaxTextLen}

\* ------------------------------------------------------------------------
\* Arithmetic helpers (Math.floor, Math.ceil, Math.max, Math.min)
\* ------------------------------------------------------------------------

Max(a, b) == IF a >= b THEN a ELSE b

Min(a, b) == IF a <= b THEN a ELSE b

\* Math.floor(n / d) for d > 0
Floor(n, d) == n \div d

\* Math.ceil(n / d) for d > 0
Ceil(n, d) == -((-n) \div d)

\* the set S with its elements listed (a Set or an array of the code)
Enumerated(S) == {x : x \in S}

\* F applied to the value of v, worked out once (const x = v; ... x ... x ...)
Bind(v, F(_)) == CHOOSE r \in {F(x) : x \in {v}} : TRUE

\* ------------------------------------------------------------------------
\* generateDifferentNumber
\* ------------------------------------------------------------------------

DigitChars == <<"0", "1", "2", "3", "4", "5", "6", "7", "8", "9">>

\* \d of the regular expressions
IsDigit(c) == \E i \in 1..10 : DigitChars[i] = c

\* parseInt(digit, 10) of a digit character
ParseInt(c) == (CHOOSE i \in 1..10 : DigitChars[i] = c) - 1

\* newDigit.toString()
DigitToString(n) == DigitChars[n + 1]

\* Math.floor(Math.random() * 10)
RandomDigits == 0..9

\* original.replace(/\D/g, '')
RECURSIVE StripNonDigits(_)
StripNonDigits(s) ==
    IF s = <<>> THEN <<>>
    ELSE IF IsDigit(Head(s)) THEN <<Head(s)>> \o StripNonDigits(Tail(s))
         ELSE StripNonDigits(Tail(s))

\* faulty variant of NewDigits: the do-while accepts any draw
NewDigitsAny(originalDigit) == RandomDigits

\* the values with which do { newDigit = random } while (newDigit === originalDigit) ends
NewDigits(originalDigit) == {n \in RandomDigits : n # originalDigit}

\* faulty variant of AppendDigit: a zero digit is dropped
AppendDigitNoZero(newNumber, newDigit) ==
    IF newDigit = 0 THEN newNumber ELSE newNumber \o <<DigitToString(newDigit)>>

\* newNumber += newDigit.toString()
AppendDigit(newNumber, newDigit) == newNumber \o <<DigitToString(newDigit)>>

\* the for-of loop over numericPart: every string the random draws can produce
RECURSIVE DigitLoop(_, _)
DigitLoop(numericPart, newNumber) ==
    IF numericPart = <<>> THEN {newNumber}
    ELSE UNION {DigitLoop(Tail(numericPart), AppendDigit(newNumber, n)) :
                    n \in NewDigits(ParseInt(Head(numericPart)))}

\* generateDifferentNumber(original): the set of possible return values
GenerateDifferentNumber(original) ==
    LET numericPart == StripNonDigits(original)
    IN  IF Len(numericPart) = 0 THEN {original}
        ELSE DigitLoop(numericPart, <<>>)

\* ------------------------------------------------------------------------
\* Safety filter
\* ------------------------------------------------------------------------

\* SAFE_NUMBER_RE = /^\d{1,2}$/
SAFE_NUMBER_RE(text) ==
    /\ Len(text) >= 1
    /\ Len(text) <= 2
    /\ \A i \in 1..Len(text) : IsDigit(text[i])

COMPLEX_ROLES ==
    {"fraction-bar", "fraction-num", "fraction-den",
     "sqrt-sign", "sqrt-vinculum", "sqrt-content",
     "sum-op", "sum-lower", "sum-upper",
     "prod-op", "prod-lower", "prod-upper",
     "int-op", "int-lower", "int-upper",
     "lim-op", "lim-sub",
     "matrix-bracket", "matrix-element"}

\* the TextRole union
TextRole ==
    {"base", "sup", "sub", "sign", "operator", "relation"} \cup COMPLEX_ROLES \cup
    {"func-name", "paren-left", "paren-right", "abs-bar", "vector-arrow",
     "derivative-op", "prime", "infinity", "factorial", "degree", "angle-symbol"}

\* an optional string field that is absent
Undefined == "undefined"

\* an optional field of another type: absent, or present with value v
None == <<>>

Some(v) == <<v>>

\* const { role = 'base' } = detection
RoleOf(detection) == IF detection.role = Undefined THEN "base" ELSE detection.role

\* faulty variant of isSafeReplacementToken: the test for a width or height of
\* 0 or less is missing
isSafeReplacementTokenAnySize(detection, canvasWidth, canvasHeight) ==
    LET text == detection.text
        bbox == detection.bbox
        role == IF detection.role = "undefined" THEN "base" ELSE detection.role
    IN  /\ SAFE_NUMBER_RE(text)
        /\ role \notin COMPLEX_ROLES
        /\ ~(role = "sup" \/ role = "sub")
        /\ ~(bbox.width * 100 > canvasWidth * 15)
        /\ ~(bbox.height * 10 > canvasHeight)
        /\ ~((bbox.xn + bbox.width * bbox.d) * 100 > canvasWidth * 95 * bbox.d)
        /\ ~(bbox.yn * 100 < canvasHeight * 5 * bbox.d)

\* isSafeReplacementToken: each conjunct is one early return of the code
isSafeReplacementToken(detection, canvasWidth, canvasHeight) ==
    LET text == detection.text
        bbox == detection.bbox
        role == RoleOf(detection)
    IN  /\ SAFE_NUMBER_RE(text)
        /\ role \notin COMPLEX_ROLES
        /\ ~(role = "sup" \/ role = "sub")
        /\ ~(bbox.width <= 0 \/ bbox.height <= 0)
        /\ ~(bbox.width * 100 > canvasWidth * 15)
        /\ ~(bbox.height * 10 > canvasHeight)
        /\ ~((bbox.xn + bbox.width * bbox.d) * 100 > canvasWidth * 95 * bbox.d)
        /\ ~(bbox.yn * 100 < canvasHeight * 5 * bbox.d)

\* ------------------------------------------------------------------------
\* Pixels, luminance and images
\* ------------------------------------------------------------------------

\* the three colour bytes of a pixel, packed as one number
Rgb(r, g, b) == (r * 256 + g) * 256 + b

Red(c) == c \div (256 * 256)

Green(c) == (c \div 256) % 256

Blue(c) == c % 256

White == Rgb(255, 255, 255)

\* what getImageData returns for a pixel outside the canvas (transparent black)
TransparentBlack == Rgb(0, 0, 0)

\* getLuminance(r, g, b) = 0.299 r + 0.587 g + 0.114 b, times 1000
getLuminance(r, g, b) == 299 * r + 587 * g + 114 * b

\* getLuminance of the three channels of the packed pixel c
LuminanceOf(c) == getLuminance(Red(c), Green(c), Blue(c))

INK_THRESHOLD == 180

\* an ink test that takes every pixel for ink
isInkPixelAny(luminance) == luminance < 256 * 1000

\* isInkPixel(luminance)
isInkPixel(luminance) == luminance < INK_THRESHOLD * 1000

\* getPixelLuminance(data, x, y, width): 255 when the index is outside the array
getPixelLuminance(img, x, y) ==
    LET key == y * img.width + x
    IN  IF key < 0 \/ key >= img.width * img.height THEN 255 * 1000
        ELSE LuminanceOf(img.data[key])

\* ctx.getImageData(sx, sy, sw, sh) on the canvas image cv
GetImageData(cv, sx, sy, sw, sh) ==
    [width |-> sw, height |-> sh,
     data |-> [k \in 0..(sw * sh - 1) |->
                 LET x == sx + (k % sw)
                     y == sy + (k \div sw)
                 IN  IF x >= 0 /\ x < cv.width /\ y >= 0 /\ y < cv.height
                     THEN cv.data[y * cv.width + x]
                     ELSE TransparentBlack]]

\* a box with whole-pixel corner
IntBox(x, y, w, h) == [xn |-> x, yn |-> y, d |-> 1, width |-> w, height |-> h]

\* ------------------------------------------------------------------------
\* sampleBrightestBorderColor
\* ------------------------------------------------------------------------

\* the border pixels in the order the two loops visit them
BorderScan(x1, y1, x2, y2) ==
    LET nx == IF x2 >= x1 THEN x2 - x1 + 1 ELSE 0
        ny == IF y2 >= y1 THEN y2 - y1 + 1 ELSE 0
    IN  [i \in 1..(2 * nx) |->
            IF i % 2 = 1 THEN <<x1 + (i - 1) \div 2, y1>>
            ELSE <<x1 + (i - 1) \div 2, y2>>]
        \o
        [i \in 1..(2 * ny) |->
            IF i % 2 = 1 THEN <<x1, y1 + (i - 1) \div 2>>
            ELSE <<x2, y1 + (i - 1) \div 2>>]

RECURSIVE BrightestOf(_, _, _, _)
BrightestOf(img, scan, i, brightest) ==
    IF i > Len(scan) THEN brightest
    ELSE LET x == scan[i][1]
             y == scan[i][2]
             key == y * img.width + x
             inside == key >= 0 /\ key < img.width * img.height
             c == img.data[key]
             lum == LuminanceOf(c)
         IN  IF inside /\ lum > brightest.luminance
             THEN BrightestOf(img, scan, i + 1,
                              [r |-> Red(c), g |-> Green(c), b |-> Blue(c), luminance |-> lum])
             ELSE BrightestOf(img, scan, i + 1, brightest)

sampleBrightestBorderColor(img, box, padding, canvasWidth, canvasHeight) ==
    LET x1 == Max(0, Floor(box.xn - padding * box.d, box.d))
        y1 == Max(0, Floor(box.yn - padding * box.d, box.d))
        x2 == Min(canvasWidth - 1, Ceil(box.xn + (box.width + padding) * box.d, box.d))
        y2 == Min(canvasHeight - 1, Ceil(box.yn + (box.height + padding) * box.d, box.d))
    IN  Bind(BorderScan(x1, y1, x2, y2),
             LAMBDA scan : BrightestOf(img, scan, 1,
                                       [r |-> 255, g |-> 255, b |-> 255, luminance |-> 0]))

\* ------------------------------------------------------------------------
\* calculateEraseRect
\* ------------------------------------------------------------------------

\* fillColor of calculateEraseRect: '#FFFFFF' or rgb(r, g, b)
EraseRectColor(bgColor, minBrightness) ==
    LET isVeryBright == bgColor.r > 210 /\ bgColor.g > 210 /\ bgColor.b > 210
    IN  IF isVeryBright \/ bgColor.luminance < minBrightness * 1000 THEN White
        ELSE Rgb(bgColor.r, bgColor.g, bgColor.b)

calculateEraseRect(bbox, padding, img, canvasWidth, canvasHeight, minBrightness) ==
    LET x1 == Max(0, Floor(bbox.xn - padding * bbox.d, bbox.d))
        y1 == Max(0, Floor(bbox.yn - padding * bbox.d, bbox.d))
        x2 == Min(canvasWidth, Ceil(bbox.xn + (bbox.width + padding) * bbox.d, bbox.d))
        y2 == Min(canvasHeight, Ceil(bbox.yn + (bbox.height + padding) * bbox.d, bbox.d))
        bgColor == sampleBrightestBorderColor(img, bbox, padding, canvasWidth, canvasHeight)
    IN  [x1 |-> x1, y1 |-> y1, fillWidth |-> x2 - x1, fillHeight |-> y2 - y1,
         fillColor |-> EraseRectColor(bgColor, minBrightness)]

\* the pixel keys ctx.fillRect(x, y, w, h) covers on a canvas (whole-pixel
\* arguments; a negative extent runs backwards from the corner)
FillRectKeys(cv, x, y, w, h) ==
    LET xa == Max(0, Min(x, x + w))
        xb == Min(cv.width, Max(x, x + w))
        ya == Max(0, Min(y, y + h))
        yb == Min(cv.height, Max(y, y + h))
    IN  {py * cv.width + px : px \in xa..(xb - 1), py \in ya..(yb - 1)}

\* ------------------------------------------------------------------------
\* floodFillErase, dilateErasedArea, applyBlobErasure
\* ------------------------------------------------------------------------

\* the 8 directions of the flood fill
Adjacent(p, q) ==
    /\ p # q
    /\ p[1] - q[1] \in -1..1
    /\ p[2] - q[2] \in -1..1

\* the breadth-first traversal: ink pixels reachable from the frontier;
\* st is [frontier, seen]
RECURSIVE Flood(_, _)
Flood(st, ink) ==
    IF st.frontier = {} THEN st.seen
    ELSE Bind(Enumerated({q \in ink \ st.seen : \E p \in st.frontier : Adjacent(p, q)}),
              LAMBDA next : Bind([frontier |-> next, seen |-> Enumerated(st.seen \cup next)],
                                 LAMBDA st2 : Flood(st2, ink)))

SetMin(S) == CHOOSE a \in S : \A b \in S : a <= b

SetMax(S) == CHOOSE a \in S : \A b \in S : a >= b

\* sumX (i = 1) or sumY (i = 2) over the ink pixels
RECURSIVE SumCoord(_, _)
SumCoord(S, i) ==
    IF S = {} THEN 0
    ELSE LET p == CHOOSE q \in S : TRUE IN p[i] + SumCoord(S \ {p}, i)

expandedMargin == 2

\* the pixels the two seed-search loops visit inside x1..x2, y1..y2
\* (searchRadius = Math.max(3, Math.min(width, height) / 4), steps of 1 from -searchRadius)
SeedWindow(centerX, centerY, r4, x1, y1, x2, y2) ==
    Enumerated(
        {p \in {<<centerX + Floor(4 * kx - r4, 4), centerY + Floor(4 * ky - r4, 4)>> :
                    kx \in 0..(r4 \div 2), ky \in 0..(r4 \div 2)} :
            ~(p[1] < x1 \/ p[1] > x2 \/ p[2] < y1 \/ p[2] > y2)})

\* p is visited before q (dy is the outer loop, dx the inner one)
VisitedBefore(p, q) == p[2] < q[2] \/ (p[2] = q[2] /\ p[1] <= q[1])

\* the first visited of the pixels S
FirstVisited(S) == CHOOSE s \in S : \A t \in S : VisitedBefore(<<s.x, s.y>>, <<t.x, t.y>>)

\* the pixels of S with luminance lum
WithLuminance(S, lum) == Enumerated({s \in S : s.lum = lum})

\* the pixel the loops end with among the visited pixels S, each [x, y, lum]:
\* the first visited of the darkest ones
DarkestFirst(S) == FirstVisited(WithLuminance(S, SetMin({s.lum : s \in S})))

\* the seed the loops end with; the centre itself when no pixel is below 255
SeedAmong(S, centerX, centerY) ==
    IF \A s \in S : s.lum >= 255 * 1000
    THEN [x |-> centerX, y |-> centerY, lum |-> 255 * 1000,
          centerX |-> centerX, centerY |-> centerY]
    ELSE [centerX |-> centerX, centerY |-> centerY] @@ DarkestFirst(S)

SeedIn(img, window, centerX, centerY) ==
    SeedAmong({[x |-> p[1], y |-> p[2], lum |-> getPixelLuminance(img, p[1], p[2])] :
                  p \in window},
              centerX, centerY)

\* Step 1 of floodFillErase: the darkest pixel near the centre
FindSeed(img, bbox, x1, y1, x2, y2) ==
    SeedIn(img,
           SeedWindow(Floor(2 * bbox.xn + bbox.width * bbox.d, 2 * bbox.d),
                      Floor(2 * bbox.yn + bbox.height * bbox.d, 2 * bbox.d),
                      Max(12, Min(bbox.width, bbox.height)),
                      x1, y1, x2, y2),
           Floor(2 * bbox.xn + bbox.width * bbox.d, 2 * bbox.d),
           Floor(2 * bbox.yn + bbox.height * bbox.d, 2 * bbox.d))

\* the record floodFillErase returns on failure
BlobFailure(seed) ==
    [success |-> FALSE, erasedPixels |-> {},
     centroidXn |-> seed.centerX, centroidYn |-> seed.centerY, centroidD |-> 1,
     blobWidth |-> 0, blobHeight |-> 0]

\* the pixels the traversal may accept: ink inside x1..x2, y1..y2 widened by
\* expandedMargin, inside the image
InkWithin(img, x1, y1, x2, y2) ==
    Enumerated(
        {p \in (Max(0, x1 - expandedMargin)..Min(img.width - 1, x2 + expandedMargin))
               \X (Max(0, y1 - expandedMargin)..Min(img.height - 1, y2 + expandedMargin)) :
            isInkPixel(getPixelLuminance(img, p[1], p[2]))})

\* the minimum-area check and Step 3 of floodFillErase
BlobResult(img, bbox, seed, inkPixels) ==
    IF 100 * Cardinality(inkPixels) < Max(400, 5 * bbox.width * bbox.height)
    THEN BlobFailure(seed)
    ELSE [success |-> TRUE,
          erasedPixels |-> {p[2] * img.width + p[1] : p \in inkPixels},
          centroidXn |-> SumCoord(inkPixels, 1),
          centroidYn |-> SumCoord(inkPixels, 2),
          centroidD |-> Cardinality(inkPixels),
          blobWidth |-> SetMax({p[1] : p \in inkPixels}) - SetMin({p[1] : p \in inkPixels}) + 1,
          blobHeight |-> SetMax({p[2] : p \in inkPixels}) - SetMin({p[2] : p \in inkPixels}) + 1]

\* Step 2 of floodFillErase, from the seed found
BlobFrom(img, bbox, seed, x1, y1, x2, y2) ==
    IF ~isInkPixel(seed.lum) THEN BlobFailure(seed)
    ELSE BlobResult(img, bbox, seed,
                    Bind(InkWithin(img, x1, y1, x2, y2),
                         LAMBDA ink : Flood([frontier |-> {<<seed.x, seed.y>>},
                                             seen |-> {<<seed.x, seed.y>>}], ink)))

\* floodFillErase inside the padded range x1..x2, y1..y2
FloodFillIn(img, bbox, x1, y1, x2, y2) ==
    BlobFrom(img, bbox, FindSeed(img, bbox, x1, y1, x2, y2), x1, y1, x2, y2)

floodFillErase(img, bbox, padding) ==
    FloodFillIn(img, bbox,
        Max(0, Floor(bbox.xn - padding * bbox.d, bbox.d)),
        Max(0, Floor(bbox.yn - padding * bbox.d, bbox.d)),
        Min(img.width - 1, Ceil(bbox.xn + (bbox.width + padding) * bbox.d, bbox.d)),
        Min(img.height - 1, Ceil(bbox.yn + (bbox.height + padding) * bbox.d, bbox.d)))

\* the inner two loops of dilateErasedArea for one key
DilateKey(key, imgWidth, imgHeight, dilationRadius) ==
    LET y == key \div imgWidth
        x == key % imgWidth
    IN  {(y + dy) * imgWidth + (x + dx) :
            dx \in {d \in (-dilationRadius)..dilationRadius :
                        x + d >= 0 /\ x + d < imgWidth},
            dy \in {d \in (-dilationRadius)..dilationRadius :
                        y + d >= 0 /\ y + d < imgHeight}}

\* faulty variant of dilateErasedArea: the ring is two pixels wider than asked
dilateErasedAreaWide(erasedPixels, imgWidth, imgHeight, dilationRadius) ==
    Enumerated(erasedPixels \cup
               UNION {DilateKey(key, imgWidth, imgHeight, dilationRadius + 2) : key \in erasedPixels})

\* dilateErasedArea(erasedPixels, imgWidth, imgHeight, dilationRadius)
dilateErasedArea(erasedPixels, imgWidth, imgHeight, dilationRadius) ==
    Enumerated(erasedPixels \cup
               UNION {DilateKey(key, imgWidth, imgHeight, dilationRadius) : key \in erasedPixels})

\* applyBlobErasure: the pixel array after the writes
applyBlobErasure(img, erasedPixels, bgColor) ==
    [img EXCEPT !.data =
        [k \in DOMAIN img.data |->
            IF k \in erasedPixels THEN bgColor ELSE img.data[k]]]

\* fillColor of the blob branch of smartEraseAndReplace
BlobFillColor(bgColor, minBrightness) ==
    IF bgColor.luminance < minBrightness * 1000 THEN White
    ELSE Rgb(bgColor.r, bgColor.g, bgColor.b)

\* ctx.fillStyle = c; ctx.fillRect(x, y, w, h)
FillRect(cv, x, y, w, h, c) ==
    LET keys == FillRectKeys(cv, x, y, w, h)
    IN  [cv EXCEPT !.data = [k \in DOMAIN cv.data |-> IF k \in keys THEN c ELSE cv.data[k]]]

\* ------------------------------------------------------------------------
\* Font presets
\* ------------------------------------------------------------------------

FontStyles == {"maru-gothic", "gothic", "mincho", "handwritten"}

\* a getFontPreset whose fallback is the mincho preset instead of DEFAULT_PRESET
getFontPresetMincho(fontStyle) == IF fontStyle \in FontStyles THEN fontStyle ELSE "mincho"

\* getFontPreset(fontStyle): the name of the preset used
getFontPreset(fontStyle) == IF fontStyle \in FontStyles THEN fontStyle ELSE "gothic"

\* ------------------------------------------------------------------------
\* Whole-value replacement (numberGenerator)
\* ------------------------------------------------------------------------

\* Math.pow(10, e) for e >= 0
RECURSIVE Pow10(_)
Pow10(e) == IF e = 0 THEN 1 ELSE 10 * Pow10(e - 1)

\* String(n) of an integer n >= 0
RECURSIVE NumberToString(_)
NumberToString(n) ==
    IF n < 10 THEN <<DigitToString(n)>>
    ELSE NumberToString(n \div 10) \o <<DigitToString(n % 10)>>

\* generateRandomNumber(original): the strings the random draw can return.
\* For the empty string min = 0.1 and max = 0, and the result is "0.1".
generateRandomNumber(original) ==
    LET digits == Len(original)
    IN  IF digits = 1 THEN {NumberToString(n) : n \in 1..9}
        ELSE IF digits = 0 THEN {<<"0", ".", "1">>}
        ELSE {NumberToString(n) : n \in Pow10(digits - 1)..(Pow10(digits) - 1)}

\* const maxAttempts = 50 of generateUniqueRandomReplacements
maxAttempts == 50

\* attempts < 10 of generateRandomReplacements
MappedAttempts == 10

\* ------------------------------------------------------------------------
\* Layout of base, superscript and subscript tokens (mathLayout)
\* Font sizes are kept in tenths and vertical offsets in hundredths of a
\* pixel, so that the factors 0.6, 0.35 and 0.2 are exact.
\* ------------------------------------------------------------------------

\* roles of mathLayout
LayoutRoles == {"base", "sup", "sub"}

\* DEFAULT_LAYOUT_CONFIG.supScale and subScale, in tenths
supScale10 == 6

subScale10 == 6

\* DEFAULT_LAYOUT_CONFIG.supOffsetY and subOffsetY, in hundredths
supOffsetY100 == 35

subOffsetY100 == 20

\* BASELINE_OFFSETS[fontStyle ?? 'default'], in hundredths
BASELINE_OFFSETS(fontStyle) ==
    CASE fontStyle = "maru-gothic" -> 78
      [] fontStyle = "gothic" -> 80
      [] fontStyle = "mincho" -> 82
      [] fontStyle = "handwritten" -> 75
      [] OTHER -> 80

\* calculateBaseFontSize: Math.max(Math.round(bboxHeight * 0.9), minFontSize)
calculateBaseFontSize(bboxHeight, minFontSize) ==
    Max(Floor(9 * bboxHeight + 5, 10), minFontSize)

\* faulty variant of calculateFontSize: the script size is floored at 10 px
calculateFontSizeFloored(role, baseFontSize) ==
    IF role \in {"sup", "sub"} THEN Max(6 * baseFontSize, 100) ELSE 10 * baseFontSize

\* calculateFontSize(role, baseFontSize), in tenths
calculateFontSize(role, baseFontSize) ==
    CASE role = "sup" -> baseFontSize * supScale10
      [] role = "sub" -> baseFontSize * subScale10
      [] OTHER -> baseFontSize * 10

\* a Y offset that moves superscripts down and subscripts up
calculateYOffsetSwapped(role, baseFontSize) ==
    CASE role = "sup" -> baseFontSize * supOffsetY100
      [] role = "sub" -> 0 - baseFontSize * subOffsetY100
      [] OTHER -> 0

\* calculateYOffset(role, baseFontSize), in hundredths
calculateYOffset(role, baseFontSize) ==
    CASE role = "sup" -> 0 - baseFontSize * supOffsetY100
      [] role = "sub" -> baseFontSize * subOffsetY100
      [] OTHER -> 0

\* createLayoutToken(detection, baseFontSize): layoutY in hundredths,
\* layoutX in halves
createLayoutToken(detection, baseFontSize) ==
    LET bbox == detection.bbox
        baselineOffset == BASELINE_OFFSETS(detection.fontStyle)
        calculatedBaselineY ==
            IF detection.baselineY # None THEN 100 * detection.baselineY[1]
            ELSE 100 * bbox.yn + bbox.height * baselineOffset
    IN  [text |-> detection.text,
         role |-> detection.role,
         layoutX2 |-> 2 * bbox.xn + bbox.width,
         layoutY100 |-> calculatedBaselineY + calculateYOffset(detection.role, baseFontSize),
         fontSize10 |-> calculateFontSize(detection.role, baseFontSize),
         bbox |-> bbox,
         fontStyle |-> detection.fontStyle]

\* ------------------------------------------------------------------------
\* Detector coordinates to pixel boxes (detect route, vision route, hiDpiCanvas)
\* A normalised coordinate is kept as its number of thousandths, for the
\* 0-1 scale as for the 0-1000 scale.  A converted rectangle is
\* [x, y, width, height, d]: the four numerators over the denominator d.
\* ------------------------------------------------------------------------

\* Math.round(n / d) for d > 0: the nearest integer, halves upward
Round(n, d) == Floor(2 * n + d, 2 * d)

\* normalizedBboxToCSS(bbox, canvasCssWidth, canvasCssHeight)
normalizedBboxToCSS(bbox, canvasCssWidth, canvasCssHeight) ==
    [x |-> bbox.x_min * canvasCssWidth,
     y |-> bbox.y_min * canvasCssHeight,
     width |-> (bbox.x_max - bbox.x_min) * canvasCssWidth,
     height |-> (bbox.y_max - bbox.y_min) * canvasCssHeight,
     d |-> 1000]

\* the bbox filter of parseVisionResponse; coordinates in thousandths
ValidBboxNorm(bbox) ==
    /\ bbox.x_min >= 0
    /\ bbox.y_min >= 0
    /\ bbox.x_max <= 1000
    /\ bbox.y_max <= 1000
    /\ bbox.x_max > bbox.x_min
    /\ bbox.y_max > bbox.y_min

\* a record of the detect route's reply, its optional fields absent
DetectedRecord(text, xmin, ymin, xmax, ymax) ==
    [text |-> text, xmin |-> xmin, ymin |-> ymin, xmax |-> xmax, ymax |-> ymax,
     baselineY |-> None, fontStyle |-> Undefined, role |-> Undefined]

\* const validRoles = ['base', 'sup', 'sub'] of parseDetectionResult
validRoles == {"base", "sup", "sub"}

\* x, y, width and height of parseDetectionResult: 0-1000 to pixels, rounded
ParsedBox(n, imageWidth, imageHeight) ==
    [xn |-> Round(n.xmin * imageWidth, 1000),
     yn |-> Round(n.ymin * imageHeight, 1000),
     d |-> 1,
     width |-> Round((n.xmax - n.xmin) * imageWidth, 1000),
     height |-> Round((n.ymax - n.ymin) * imageHeight, 1000)]

\* the map callback of parseDetectionResult for a record without charBboxes
ParsedNumber(n, imageWidth, imageHeight) ==
    [text |-> n.text,
     bbox |-> ParsedBox(n, imageWidth, imageHeight),
     baselineY |-> IF n.baselineY # None /\ n.baselineY[1] # 0
                   THEN Some(Round(n.baselineY[1] * imageHeight, 1000))
                   ELSE None,
     fontStyle |-> IF n.fontStyle \in FontStyles THEN n.fontStyle ELSE Undefined,
     role |-> IF n.role \in validRoles THEN n.role ELSE "base",
     charBboxes |-> None]

\* ------------------------------------------------------------------------
\* State
\* ------------------------------------------------------------------------

VARIABLES
    canvas,             \* ctx.canvas: [data, width, height]
    original,           \* the canvas as it was when smartEraseAndReplace was called
    imageData,          \* const imageData = ctx.getImageData(0, 0, canvasWidth, canvasHeight)
    detections,         \* the detections argument
    options,            \* the options argument with its defaults filled in
    pc,                 \* position in smartEraseAndReplace
    i,                  \* index of the next element of the loop at pc
    replacements,       \* const replacements = new Map<string, string>()
    drawInfos,          \* const drawInfos: DrawInfo[]
    imageDataModified,  \* let imageDataModified
    writes,             \* per drawInfo: the pixels each erasure strategy wrote and changed
    drawn,              \* the fillText calls of Phase 2, in order
    probe,              \* the argument of a single call of a pure function
    verdict,            \* what isSafeReplacementToken returned for probe
    generated,          \* what generateDifferentNumber returned for probe.text
    numbers,            \* the numbers argument of a replacement generator
    policy,             \* which generator runs: "unique", "mapped" or "none"
    index,              \* position of numbers.map in numbers
    attempts,           \* let attempts
    replacement,        \* let replacement
    usedReplacements,   \* const usedReplacements = new Set<string>()
    replacementMap,     \* const replacementMap = new Map<string, string>()
    result,             \* the NumberReplacement[] built so far
    layoutInput,        \* a DetectionInfo and the minFontSize it is laid out with
    layoutToken,        \* the LayoutToken made for layoutInput
    detectorRecord,     \* a record of a detector reply and the route that reads it
    converted,          \* what the route made of detectorRecord
    state,              \* const [state, setState] = useState<EditorState>('idle')
    detectedNumbers,    \* const [detectedNumbers, setDetectedNumbers]
    shownReplacements,  \* const [replacements, setReplacements] of the editor
    editorCanvas,       \* canvasRef.current: the image painted and the edits over it
    originalImageRef,   \* originalImageRef.current
    pcRun,              \* position in generateWithVerification
    retryAttempts,      \* let attempts of generateWithVerification
    isValid,            \* let isValid
    currentReplacements, \* let currentReplacements
    cycles,             \* verifyWithAI calls made by the run so far
    given,              \* the token list as it was handed to the classifier
    current,            \* verdicts of the classifier pass in progress
    passes,             \* the partitions of the completed classifier passes
    reported,           \* the records of the detector reply the detections were parsed from
    floodCall,          \* the arguments of a single floodFillErase call
    floodReturn,        \* what the call returned, its seed, and the image after it
    drawCall,           \* a DrawInfo at the head of the Phase 2 loop
    fillTextCalls,      \* the fillText calls made for drawCall
    localStorage,       \* window.localStorage: the string stored under each key
    hookKey,            \* the key argument of the committed render
    hookValue,          \* const [value, setValue] = useState(defaultValue)
    hydrated,           \* const [hydrated, setHydrated] = useState(false)
    lastSerializedRef,  \* lastSerializedRef.current
    queued,             \* state updates and key prop waiting for the next render
    effectsDue,         \* the effects whose dependencies changed in the committed render
    pcHook,             \* what runs next: the read effect, the write effect, or nothing
    hookReads,          \* the keys read with getItem since the mount
    eventsLeft,         \* setValue calls and key changes the owner may still make
    imageFile,          \* the imageFile prop of the committed render
    detectRuns,         \* the calls of detectWithTesseract made so far and where each stands
    modelsToTry,        \* const modelsToTry = getModelsToTry()
    tried,              \* the model calls made so far and how each ended
    lastError,          \* let lastError: the message of the last error
    allRateLimited,     \* let allRateLimited
    response,           \* the status the route answered
    waitSeconds,        \* const [waitSeconds, setWaitSeconds] of the page
    pcPost              \* position of the request: in the loop, answered, received

engineVars ==
    <<canvas, original, imageData, detections, options, pc, i, replacements,
      drawInfos, imageDataModified, writes, drawn>>

policyVars ==
    <<numbers, policy, index, attempts, replacement, usedReplacements, replacementMap,
      result>>

layoutVars == <<layoutInput, layoutToken>>

probeVars == <<probe, verdict, generated>>

convertVars == <<detectorRecord, converted>>

editorVars ==
    <<state, detectedNumbers, shownReplacements, editorCanvas, originalImageRef, pcRun,
      retryAttempts, isValid, currentReplacements, cycles>>

partitionVars == <<given, current, passes>>

routeVars == <<reported>>

floodVars == <<floodCall, floodReturn>>

glyphVars == <<drawCall, fillTextCalls>>

hookVars == <<localStorage, hookKey, hookValue, hydrated, lastSerializedRef, queued, effectsDue, pcHook, hookReads, eventsLeft>>

detectVars == <<imageFile, detectRuns>>

postVars == <<modelsToTry, tried, lastError, allRateLimited, response, waitSeconds, pcPost>>

libVars ==
    <<policyVars, layoutVars, convertVars, editorVars, partitionVars, routeVars, floodVars, glyphVars, hookVars, detectVars, postVars>>

pureVars == <<probeVars, libVars>>

\* what the steps of one component leave alone
outsideProbe == <<engineVars, libVars>>

outsidePolicy == <<engineVars, probeVars, layoutVars, convertVars, editorVars, partitionVars, routeVars, floodVars, glyphVars, hookVars, detectVars, postVars>>

outsideLayout == <<engineVars, probeVars, policyVars, convertVars, editorVars, partitionVars, routeVars, floodVars, glyphVars, hookVars, detectVars, postVars>>

outsideConvert == <<engineVars, probeVars, policyVars, layoutVars, editorVars, partitionVars, routeVars, floodVars, glyphVars, hookVars, detectVars, postVars>>

outsideEditor == <<engineVars, probeVars, policyVars, layoutVars, convertVars, partitionVars, routeVars, floodVars, glyphVars, hookVars, detectVars, postVars>>

outsidePartition == <<probeVars, policyVars, layoutVars, convertVars, editorVars, routeVars, floodVars, glyphVars, hookVars, detectVars, postVars>>

outsideFlood == <<engineVars, probeVars, policyVars, layoutVars, convertVars, editorVars, partitionVars, routeVars, glyphVars, hookVars, detectVars, postVars>>

outsideGlyph == <<engineVars, probeVars, policyVars, layoutVars, convertVars, editorVars, partitionVars, routeVars, floodVars, hookVars, detectVars, postVars>>

outsideHook == <<engineVars, probeVars, policyVars, layoutVars, convertVars, editorVars, partitionVars, routeVars, floodVars, glyphVars, detectVars, postVars>>


outsideDetection ==
    <<engineVars, probeVars, policyVars, layoutVars, convertVars, partitionVars, routeVars,
      floodVars, glyphVars, hookVars, postVars, shownReplacements, pcRun, retryAttempts,
      isValid, currentReplacements, cycles>>

outsidePost == <<engineVars, probeVars, policyVars, layoutVars, convertVars, editorVars, partitionVars, routeVars, floodVars, glyphVars, hookVars, detectVars>>

vars == <<engineVars, pureVars>>

\* ------------------------------------------------------------------------
\* Inputs
\* ------------------------------------------------------------------------

\* most detections of one call
MaxDetections == 2

\* the SmartEraseOptions defaults
DefaultPadding == 2

DefaultMinBrightness == 200

DefaultMinFontSize == 10

DefaultSmallBoxThreshold == 20

DefaultOptions ==
    [padding |-> DefaultPadding, minBrightness |-> DefaultMinBrightness,
     minFontSize |-> DefaultMinFontSize, smallBoxThreshold |-> DefaultSmallBoxThreshold]

\* the defaults, a caller that lowers the small-box threshold to two pixels,
\* and a caller that lowers minFontSize to one pixel
OptionChoices ==
    {DefaultOptions,
     [DefaultOptions EXCEPT !.smallBoxThreshold = 2],
     [DefaultOptions EXCEPT !.minFontSize = 1]}

\* side of the square canvases
CanvasSide == 20

Black == Rgb(0, 0, 0)

NearWhite == Rgb(220, 220, 220)

\* paper colours of the scanned page
Papers == {White, NearWhite}

\* pencil grey, lighter than INK_THRESHOLD
Faint == Rgb(190, 190, 190)

\* ink of the page: a long horizontal rule and a short separate stroke below it
InkPixels == {<<x, 11>> : x \in 1..12} \cup {<<x, 13>> : x \in 4..7}

\* a faint pencil mark
FaintPixels == {<<14, 3>>, <<15, 4>>}

Page(paper) ==
    [width |-> CanvasSide, height |-> CanvasSide,
     data |-> [k \in 0..(CanvasSide * CanvasSide - 1) |->
                 IF <<k % CanvasSide, k \div CanvasSide>> \in InkPixels THEN Black
                 ELSE IF <<k % CanvasSide, k \div CanvasSide>> \in FaintPixels THEN Faint
                 ELSE paper]]

Detection(text, bbox, role, fontStyle, baselineY) ==
    [text |-> text, bbox |-> bbox, role |-> role, fontStyle |-> fontStyle,
     baselineY |-> baselineY, charBboxes |-> None]

\* what the detector may report for the page: a digit on the rule, a box too
\* wide for the filter further along the rule, a digit box over the faint
\* pencil mark, a superscript, and a record of the detect route a fifth of a
\* pixel wide
DetectorTokens ==
    {Detection(<<"7">>, IntBox(4, 10, 2, 2), Undefined, Undefined, None),
     Detection(<<"7">>, IntBox(9, 10, 4, 2), "base", "gothic", None),
     Detection(<<"7">>, IntBox(14, 3, 2, 2), "base", "mincho", Some(5)),
     Detection(<<"7">>, IntBox(14, 8, 2, 2), "sup", Undefined, None),
     ParsedNumber(DetectedRecord(<<"7">>, 700, 400, 710, 500), CanvasSide, CanvasSide)}

\* lists of distinct reported tokens
DetectionLists ==
    {s \in UNION {[1..n -> DetectorTokens] : n \in 0..MaxDetections} :
        \A a, b \in 1..Len(s) : a # b => s[a] # s[b]}

EmptyMap == [t \in {} |-> <<>>]

\* Map.set(key, value)
MapSet(m, key, value) ==
    [t \in DOMAIN m \cup {key} |-> IF t = key THEN value ELSE m[t]]

NoProbe == [text |-> <<>>, bbox |-> IntBox(0, 0, 0, 0), role |-> Undefined,
            canvasWidth |-> 0, canvasHeight |-> 0]

\* no replacement generator is running
PolicyIdle ==
    /\ numbers = <<>>
    /\ policy = "none"
    /\ index = 1
    /\ attempts = 0
    /\ replacement = <<>>
    /\ usedReplacements = {}
    /\ replacementMap = EmptyMap
    /\ result = <<>>

\* no token is being laid out
LayoutIdle ==
    /\ layoutInput = None
    /\ layoutToken = None

\* no detector record is being read
ConvertIdle ==
    /\ detectorRecord = None
    /\ converted = None

\* a canvas element nothing was painted on
NoCanvas == [image |-> "none", edits |-> <<>>]

\* no editor is mounted
EditorIdle ==
    /\ state = "idle"
    /\ detectedNumbers = <<>>
    /\ shownReplacements = <<>>
    /\ editorCanvas = NoCanvas
    /\ originalImageRef = "none"
    /\ pcRun = "idle"
    /\ retryAttempts = 0
    /\ isValid = FALSE
    /\ currentReplacements = <<>>
    /\ cycles = 0

\* no token list is being classified
PartitionIdle ==
    /\ given = <<>>
    /\ current = <<>>
    /\ passes = <<>>

\* no detector reply is being handed to the engine
RouteIdle ==
    /\ reported = <<>>

\* no single floodFillErase call is in progress
FloodIdle ==
    /\ floodCall = None
    /\ floodReturn = None

\* no single token is being drawn
GlyphIdle ==
    /\ drawCall = None
    /\ fillTextCalls = None

\* no component using the hook is mounted
HookIdle ==
    /\ localStorage = <<>>
    /\ hookKey = ""
    /\ hookValue = ""
    /\ hydrated = FALSE
    /\ lastSerializedRef = <<>>
    /\ queued = <<>>
    /\ effectsDue = {}
    /\ pcHook = "unmounted"
    /\ hookReads = {}
    /\ eventsLeft = 0

\* no detection is running
DetectIdle ==
    /\ imageFile = ""
    /\ detectRuns = <<>>

\* no request to the generate route is under way
PostIdle ==
    /\ modelsToTry = <<>>
    /\ tried = <<>>
    /\ lastError = <<>>
    /\ allRateLimited = TRUE
    /\ response = <<>>
    /\ waitSeconds = 0
    /\ pcPost = "none"

LibIdle == PolicyIdle /\ LayoutIdle /\ ConvertIdle /\ EditorIdle /\ PartitionIdle /\ RouteIdle /\ FloodIdle /\ GlyphIdle /\ HookIdle /\ DetectIdle /\ PostIdle

PureIdle ==
    /\ probe = NoProbe
    /\ verdict = None
    /\ generated = None
    /\ LibIdle

\* the state on entry of smartEraseAndReplace, after the getImageData call
Init ==
    /\ \E paper \in Papers : canvas = Page(paper)
    /\ original = canvas
    /\ imageData = canvas
    /\ detections \in DetectionLists
    /\ options \in OptionChoices
    /\ pc = "phase1"
    /\ i = 1
    /\ replacements = EmptyMap
    /\ drawInfos = <<>>
    /\ imageDataModified = FALSE
    /\ writes = <<>>
    /\ drawn = <<>>
    /\ PureIdle

\* ------------------------------------------------------------------------
\* smartEraseAndReplace, Phase 1: one iteration of the loop over detections
\* ------------------------------------------------------------------------

\* the pixels of S whose colour differs between the images a and b
Changed(S, a, b) == {k \in S : a.data[k] # b.data[k]}

\* const padding = isSmallBox ? 1 : basePadding
PaddingFor(bbox) ==
    IF bbox.height < options.smallBoxThreshold \/ bbox.width < options.smallBoxThreshold
    THEN 1 ELSE options.padding

\* the font size with Math.floor in place of Math.round
BaseFontSizeFloored(effectiveBlobHeight) ==
    Max(Floor(3 * effectiveBlobHeight, 4), options.minFontSize)

\* Math.max(Math.round(effectiveBlobHeight * 0.75), minFontSize)
BaseFontSize(effectiveBlobHeight) ==
    Max(Floor(3 * effectiveBlobHeight + 2, 4), options.minFontSize)

\* { x: centroidX - bbox.width / 2, y: centroidY - bbox.height / 2, width, height }
Recentred(bbox, blobResult) ==
    [xn |-> 2 * blobResult.centroidXn - blobResult.centroidD * bbox.width,
     yn |-> 2 * blobResult.centroidYn - blobResult.centroidD * bbox.height,
     d |-> 2 * blobResult.centroidD,
     width |-> bbox.width, height |-> bbox.height]

\* a detection the safety filter rejects: continue
Phase1Skip ==
    /\ pc = "phase1"
    /\ i <= Len(detections)
    /\ ~isSafeReplacementToken(detections[i], canvas.width, canvas.height)
    /\ i' = i + 1
    /\ UNCHANGED <<canvas, original, imageData, detections, options, pc, replacements,
                   drawInfos, imageDataModified, writes, drawn, pureVars>>

\* the blob branch of an iteration: dilation, colour, write to imageData
BlobWrite(img, bbox, blobResult, dilatedPixels, bgColor) ==
    [eraseSuccess |-> TRUE,
     imageData |-> applyBlobErasure(img, dilatedPixels,
                                    BlobFillColor(bgColor, options.minBrightness)),
     bgColor |-> bgColor,
     fillColor |-> BlobFillColor(bgColor, options.minBrightness),
     written |-> dilatedPixels,
     changed |-> {k \in dilatedPixels :
                     img.data[k] # BlobFillColor(bgColor, options.minBrightness)},
     bbox |-> Recentred(bbox, blobResult),
     effectiveBlobHeight |-> blobResult.blobHeight]

\* an iteration whose blob erasure failed: nothing is written
BlobSkip(img, bbox, bgColor) ==
    [eraseSuccess |-> FALSE, imageData |-> img, bgColor |-> bgColor, fillColor |-> White,
     written |-> {}, changed |-> {}, bbox |-> bbox, effectiveBlobHeight |-> bbox.height]

\* if (blobResult.success && blobResult.erasedPixels.size > 0) ... for one detection
BlobOutcome(img, bbox, padding, blobResult) ==
    IF blobResult.success /\ blobResult.erasedPixels # {}
    THEN BlobWrite(img, bbox, blobResult,
                   dilateErasedArea(blobResult.erasedPixels, img.width, img.height, 1),
                   sampleBrightestBorderColor(img, bbox, padding, img.width, img.height))
    ELSE BlobSkip(img, bbox,
                  sampleBrightestBorderColor(img, bbox, padding, img.width, img.height))

\* Step 1 of an iteration for a safe detection: the blob erasure on imageData
BlobErase(img, detection) ==
    BlobOutcome(img, detection.bbox, PaddingFor(detection.bbox),
                floodFillErase(img, detection.bbox, PaddingFor(detection.bbox)))

\* a safe detection: blob erasure on imageData, replacement value, drawInfos.push
Phase1Erase ==
    /\ pc = "phase1"
    /\ i <= Len(detections)
    /\ isSafeReplacementToken(detections[i], canvas.width, canvas.height)
    /\ \E blob \in {BlobErase(imageData, detections[i])} :
         /\ imageData' = blob.imageData
         /\ imageDataModified' = (imageDataModified \/ blob.eraseSuccess)
         /\ writes' = Append(writes,
                [idx |-> i,
                 blobSuccess |-> blob.eraseSuccess,
                 blobFill |-> blob.fillColor,
                 blobBackground |-> blob.bgColor,
                 blobWritten |-> blob.written,
                 blobChanged |-> blob.changed,
                 rectApplied |-> FALSE,
                 rectFill |-> White,
                 rectBackground |-> blob.bgColor,
                 rectWritten |-> {},
                 rectChanged |-> {}])
         /\ \E newNumber \in GenerateDifferentNumber(detections[i].text) :
              /\ replacements' = MapSet(replacements, detections[i].text, newNumber)
              /\ drawInfos' = Append(drawInfos,
                     [detection |-> [detections[i] EXCEPT !.bbox = blob.bbox],
                      newNumber |-> newNumber,
                      preset |-> getFontPreset(detections[i].fontStyle),
                      fontSize |-> BaseFontSize(blob.effectiveBlobHeight)])
    /\ i' = i + 1
    /\ UNCHANGED <<canvas, original, detections, options, pc, drawn, pureVars>>

\* if (imageDataModified) ctx.putImageData(imageData, 0, 0), after the loop
PutImageData ==
    /\ pc = "phase1"
    /\ i > Len(detections)
    /\ canvas' = IF imageDataModified THEN imageData ELSE canvas
    /\ pc' = IF drawInfos = <<>> THEN "phase2" ELSE "fallback"
    /\ i' = 1
    /\ UNCHANGED <<original, imageData, detections, options, replacements, drawInfos,
                   imageDataModified, writes, drawn, pureVars>>

\* ------------------------------------------------------------------------
\* The rectangle loop over drawInfos
\* ------------------------------------------------------------------------

\* the second floodFillErase, on the cut-out around the drawInfo's box
ResidualBlob(cv, bbox) ==
    floodFillErase(
        GetImageData(cv,
                     Max(0, Floor(bbox.xn - options.padding * bbox.d, bbox.d)),
                     Max(0, Floor(bbox.yn - options.padding * bbox.d, bbox.d)),
                     bbox.width + options.padding * 2,
                     bbox.height + options.padding * 2),
        IntBox(options.padding, options.padding, bbox.width, bbox.height),
        1)

\* if (blobResult.erasedPixels.size > 0)
NeedsRectangle(cv, bbox) == ResidualBlob(cv, bbox).erasedPixels # {}

\* the rectangle of one iteration: calculateEraseRect on the canvas, then fillRect
RectFill(cv, bbox, eraseRect) ==
    [canvas |-> FillRect(cv, eraseRect.x1, eraseRect.y1,
                         eraseRect.fillWidth, eraseRect.fillHeight, eraseRect.fillColor),
     fillColor |-> eraseRect.fillColor,
     bgColor |-> sampleBrightestBorderColor(cv, bbox, options.padding, cv.width, cv.height),
     written |-> FillRectKeys(cv, eraseRect.x1, eraseRect.y1,
                              eraseRect.fillWidth, eraseRect.fillHeight)]

\* the body of the if: what the rectangle writes for the box of a drawInfo
RectErase(cv, bbox) ==
    Bind(calculateEraseRect(bbox, options.padding, cv, cv.width, cv.height,
                            options.minBrightness),
         LAMBDA eraseRect : RectFill(cv, bbox, eraseRect))

\* the rectangle loop placed after the drawing loop
FallbackStepAfterDrawing ==
    \/ /\ pc = "fallback"
       /\ pc' = "phase2"
       /\ i' = 1
       /\ UNCHANGED <<canvas, original, imageData, detections, options, replacements,
                      drawInfos, imageDataModified, writes, drawn, pureVars>>
    \/ /\ pc = "phase2"
       /\ i > Len(drawInfos)
       /\ \E k \in 1..Len(drawInfos) :
             /\ ~writes[k].rectApplied
             /\ NeedsRectangle(canvas, drawInfos[k].detection.bbox)
             /\ \E rect \in {RectErase(canvas, drawInfos[k].detection.bbox)} :
                   /\ canvas' = rect.canvas
                   /\ writes' = [writes EXCEPT
                          ![k].rectApplied = TRUE,
                          ![k].rectFill = rect.fillColor,
                          ![k].rectBackground = rect.bgColor,
                          ![k].rectWritten = rect.written,
                          ![k].rectChanged = Changed(rect.written, canvas, rect.canvas)]
       /\ UNCHANGED <<original, imageData, detections, options, pc, i, replacements,
                      drawInfos, imageDataModified, drawn, pureVars>>

\* one iteration of the rectangle loop
FallbackStep ==
    /\ pc = "fallback"
    /\ i <= Len(drawInfos)
    /\ IF NeedsRectangle(canvas, drawInfos[i].detection.bbox)
       THEN \E rect \in {RectErase(canvas, drawInfos[i].detection.bbox)} :
                /\ canvas' = rect.canvas
                /\ writes' = [writes EXCEPT
                       ![i].rectApplied = TRUE,
                       ![i].rectFill = rect.fillColor,
                       ![i].rectBackground = rect.bgColor,
                       ![i].rectWritten = rect.written,
                       ![i].rectChanged = Changed(rect.written, canvas, rect.canvas)]
       ELSE UNCHANGED <<canvas, writes>>
    /\ i' = IF i = Len(drawInfos) THEN 1 ELSE i + 1
    /\ pc' = IF i = Len(drawInfos) THEN "phase2" ELSE "fallback"
    /\ UNCHANGED <<original, imageData, detections, options, replacements, drawInfos,
                   imageDataModified, drawn, pureVars>>

\* ------------------------------------------------------------------------
\* smartEraseAndReplace, Phase 2: one iteration of the drawing loop
\* ------------------------------------------------------------------------

\* FONT_PRESETS[...].baselineOffset, in hundredths
BaselineOffset100(preset) ==
    CASE preset = "maru-gothic" -> 78
      [] preset = "gothic" -> 80
      [] preset = "mincho" -> 82
      [] preset = "handwritten" -> 75

\* fontSize of Phase 2, in tenths of a pixel (SUP_SCALE = SUB_SCALE = 0.6)
RoleFontSize10(role, baseFontSize) ==
    IF role = "sup" \/ role = "sub"
    THEN Max(6 * baseFontSize, 10 * options.minFontSize)
    ELSE 10 * baseFontSize

\* calculatedBaselineY as the fraction n / d (SUP_OFFSET_Y = 0.35, SUB_OFFSET_Y = 0.2)
BaselineFor(detection, preset, role, baseFontSize) ==
    LET bbox == detection.bbox
        d == 100 * bbox.d
        n == IF detection.baselineY # None THEN detection.baselineY[1] * d
             ELSE 100 * bbox.yn + bbox.height * BaselineOffset100(preset) * bbox.d
    IN  [d |-> d,
         n |-> CASE role = "sup" -> n - baseFontSize * 35 * bbox.d
                 [] role = "sub" -> n + baseFontSize * 20 * bbox.d
                 [] OTHER -> n]

\* the string the fillText calls of drawInfo k spell
DrawnText(k) == drawInfos[k].newNumber

\* if (charBboxes && charBboxes.length > 0 && newNumber.length > 1)
DrawRoutine(charBboxes, newNumber) ==
    IF charBboxes # None /\ Len(charBboxes[1]) > 0 /\ Len(newNumber) > 1
    THEN "drawWithKerning" ELSE "drawCentered"

\* one iteration of the drawing loop
DrawStep ==
    /\ pc = "phase2"
    /\ i <= Len(drawInfos)
    /\ LET info == drawInfos[i]
           detection == info.detection
           role == RoleOf(detection)
           charBboxes == detection.charBboxes
       IN  drawn' = Append(drawn,
               [k |-> i,
                text |-> DrawnText(i),
                bbox |-> detection.bbox,
                preset |-> info.preset,
                fontSize10 |-> RoleFontSize10(role, info.fontSize),
                baselineY |-> BaselineFor(detection, info.preset, role, info.fontSize),
                how |-> DrawRoutine(charBboxes, info.newNumber)])
    /\ i' = i + 1
    /\ UNCHANGED <<canvas, original, imageData, detections, options, pc, replacements,
                   drawInfos, imageDataModified, writes, pureVars>>

\* return replacements
Return ==
    /\ pc = "phase2"
    /\ i > Len(drawInfos)
    /\ pc' = "done"
    /\ UNCHANGED <<canvas, original, imageData, detections, options, i, replacements,
                   drawInfos, imageDataModified, writes, drawn, pureVars>>

Next ==
    \/ Phase1Skip
    \/ Phase1Erase
    \/ PutImageData
    \/ FallbackStep
    \/ DrawStep
    \/ Return

Spec == Init /\ [][Next]_vars

\* ------------------------------------------------------------------------
\* Single calls of generateDifferentNumber and of isSafeReplacementToken
\* ------------------------------------------------------------------------

NoImage == [width |-> 0, height |-> 0, data |-> <<>>]

\* no smartEraseAndReplace call is in progress
EngineIdle ==
    /\ canvas = NoImage
    /\ original = NoImage
    /\ imageData = NoImage
    /\ detections = <<>>
    /\ options = DefaultOptions
    /\ pc = "done"
    /\ i = 1
    /\ replacements = EmptyMap
    /\ drawInfos = <<>>
    /\ imageDataModified = FALSE
    /\ writes = <<>>
    /\ drawn = <<>>

\* a DetectedNumber together with the canvas size it is classified against
Probe(text, bbox, role, canvasWidth, canvasHeight) ==
    [text |-> text, bbox |-> bbox, role |-> role,
     canvasWidth |-> canvasWidth, canvasHeight |-> canvasHeight]

\* boxes inside the page, on and across each limit of the filter
ProbeBoxes ==
    {IntBox(x, y, w, h) : x \in {5, 16, 17}, y \in {0, 1, 2}, w \in {0, 3, 4}, h \in {0, 2, 3}}

\* roles a detection may carry, the absent role included
ProbeRoles == TextRole \cup {Undefined}

\* every text in a box the filter accepts
GenProbes ==
    {Probe(t, IntBox(5, 5, 2, 2), Undefined, CanvasSide, CanvasSide) : t \in Texts}

FilterProbes ==
    {Probe(t, b, r, w, CanvasSide) :
        t \in Texts, b \in ProbeBoxes, r \in ProbeRoles, w \in {CanvasSide, 2 * CanvasSide}}

\* the token probe is accepted by the safety filter
ProbeAccepted == isSafeReplacementToken(probe, probe.canvasWidth, probe.canvasHeight)

InitGen ==
    /\ EngineIdle
    /\ probe \in GenProbes
    /\ verdict = None
    /\ generated = None
    /\ LibIdle

\* const newNumber = generateDifferentNumber(text)
Generate ==
    /\ generated = None
    /\ \E newNumber \in GenerateDifferentNumber(probe.text) : generated' = Some(newNumber)
    /\ UNCHANGED <<outsideProbe, probe, verdict>>

NextGen == Generate

SpecGen == InitGen /\ [][NextGen]_vars

InitFilter ==
    /\ EngineIdle
    /\ probe \in FilterProbes
    /\ verdict = None
    /\ generated = None
    /\ LibIdle

\* isSafeReplacementToken(detection, canvasWidth, canvasHeight)
Classify ==
    /\ verdict = None
    /\ verdict' = Some(ProbeAccepted)
    /\ UNCHANGED <<outsideProbe, probe, generated>>

NextFilter == Classify

SpecFilter == InitFilter /\ [][NextFilter]_vars

\* ------------------------------------------------------------------------
\* Single calls of generateUniqueRandomReplacements and of
\* generateRandomReplacements: one step per pass of the do-while loop
\* ------------------------------------------------------------------------

\* most numbers of one call
MaxNumbers == 2

\* a one-digit and a two-digit number
NumberTexts == {<<"5">>, <<"1", "2">>}

NumberLists == UNION {[1..n -> NumberTexts] : n \in 0..MaxNumbers}

\* no single-token call is in progress
ProbeIdle ==
    /\ probe = NoProbe
    /\ verdict = None
    /\ generated = None

InitReplace ==
    /\ EngineIdle
    /\ ProbeIdle
    /\ LayoutIdle
    /\ ConvertIdle
    /\ EditorIdle
    /\ PartitionIdle
    /\ RouteIdle
    /\ FloodIdle
    /\ GlyphIdle
    /\ HookIdle
    /\ DetectIdle
    /\ PostIdle
    /\ numbers \in NumberLists
    /\ policy \in {"unique", "mapped"}
    /\ index = 1
    /\ attempts = 0
    /\ replacement = <<>>
    /\ usedReplacements = {}
    /\ replacementMap = EmptyMap
    /\ result = <<>>

\* { original, replacement }
NumberReplacement(number, newValue) == [original |-> number, replacement |-> newValue]

\* the while condition of generateUniqueRandomReplacements
UniqueRetry ==
    /\ replacement = numbers[index] \/ replacement \in usedReplacements
    /\ attempts < maxAttempts

\* the while condition of generateRandomReplacements
MappedRetry == replacement = numbers[index] /\ attempts < MappedAttempts

\* one pass of the do body: replacement = generateRandomNumber(original); attempts++
DrawAgain ==
    /\ \E drawnNumber \in generateRandomNumber(numbers[index]) : replacement' = drawnNumber
    /\ attempts' = attempts + 1
    /\ UNCHANGED <<numbers, policy, index, usedReplacements, replacementMap, result>>

\* the map callback moves on to the next number
NextNumber ==
    /\ index' = index + 1
    /\ attempts' = 0
    /\ replacement' = <<>>
    /\ UNCHANGED <<numbers, policy>>

UniqueDraw ==
    /\ policy = "unique"
    /\ index <= Len(numbers)
    /\ attempts = 0 \/ UniqueRetry
    /\ DrawAgain
    /\ UNCHANGED outsidePolicy

\* usedReplacements.add(replacement); return { original, replacement }
UniqueAssign ==
    /\ policy = "unique"
    /\ index <= Len(numbers)
    /\ attempts > 0
    /\ ~UniqueRetry
    /\ usedReplacements' = usedReplacements \cup {replacement}
    /\ result' = Append(result, NumberReplacement(numbers[index], replacement))
    /\ NextNumber
    /\ UNCHANGED <<outsidePolicy, replacementMap>>

\* if (replacementMap.has(original)) return { original, replacement: replacementMap.get(original) }
MappedReuse ==
    /\ policy = "mapped"
    /\ index <= Len(numbers)
    /\ numbers[index] \in DOMAIN replacementMap
    /\ result' = Append(result,
                        NumberReplacement(numbers[index], replacementMap[numbers[index]]))
    /\ NextNumber
    /\ UNCHANGED <<outsidePolicy, usedReplacements, replacementMap>>

MappedDraw ==
    /\ policy = "mapped"
    /\ index <= Len(numbers)
    /\ numbers[index] \notin DOMAIN replacementMap
    /\ attempts = 0 \/ MappedRetry
    /\ DrawAgain
    /\ UNCHANGED outsidePolicy

\* replacementMap.set(original, replacement); return { original, replacement }
MappedAssign ==
    /\ policy = "mapped"
    /\ index <= Len(numbers)
    /\ numbers[index] \notin DOMAIN replacementMap
    /\ attempts > 0
    /\ ~MappedRetry
    /\ replacementMap' = MapSet(replacementMap, numbers[index], replacement)
    /\ result' = Append(result, NumberReplacement(numbers[index], replacement))
    /\ NextNumber
    /\ UNCHANGED <<outsidePolicy, usedReplacements>>

NextReplace ==
    \/ UniqueDraw
    \/ UniqueAssign
    \/ MappedReuse
    \/ MappedDraw
    \/ MappedAssign

SpecReplace == InitReplace /\ [][NextReplace]_vars

\* ------------------------------------------------------------------------
\* Laying out one token with mathLayout, next to the engine's own drawing
\* ------------------------------------------------------------------------

\* tallest box laid out
MaxBoxHeight == 12

\* minFontSize settings below, at and above the default of 10
MinFontSizes == {6, 10, 12}

\* DetectionInfo
DetectionInfo(text, bbox, role, baselineY, fontStyle) ==
    [text |-> text, bbox |-> bbox, role |-> role, baselineY |-> baselineY,
     fontStyle |-> fontStyle]

LayoutInputs ==
    {[detection |-> DetectionInfo(<<"2">>, IntBox(5, 4, 8, h), role, baselineY, fontStyle),
      minFontSize |-> minFontSize] :
        h \in 1..MaxBoxHeight, role \in LayoutRoles, baselineY \in {None, Some(9)},
        fontStyle \in {Undefined, "mincho"}, minFontSize \in MinFontSizes}

InitLayout ==
    /\ EngineIdle
    /\ ProbeIdle
    /\ PolicyIdle
    /\ ConvertIdle
    /\ EditorIdle
    /\ PartitionIdle
    /\ RouteIdle
    /\ FloodIdle
    /\ GlyphIdle
    /\ HookIdle
    /\ DetectIdle
    /\ PostIdle
    /\ layoutInput \in {Some(input) : input \in LayoutInputs}
    /\ layoutToken = None

\* the base font size of the token's own box, then createLayoutToken
LayoutStep ==
    /\ layoutInput # None
    /\ layoutToken = None
    /\ layoutToken' =
           Some(createLayoutToken(
                    layoutInput[1].detection,
                    calculateBaseFontSize(layoutInput[1].detection.bbox.height,
                                          layoutInput[1].minFontSize)))
    /\ UNCHANGED <<outsideLayout, layoutInput>>

NextLayout == LayoutStep

\* a call of smartEraseAndReplace, or the layout of one token
InitRender == Init \/ InitLayout

NextRender == Next \/ NextLayout

SpecRender == InitRender /\ [][NextRender]_vars

\* ------------------------------------------------------------------------
\* Reading one detector record: the detect route (0-1000 coordinates) and
\* the vision route with normalizedBboxToCSS (0-1 coordinates)
\* ------------------------------------------------------------------------

\* corner coordinates in thousandths: on and between the pixels of the page,
\* and one outside the image
CornerCoords == {0 - 50, 100, 125, 130, 275}

\* a token of the vision route's reply
VisionToken(text, x_min, y_min, x_max, y_max) ==
    [text |-> text,
     bbox_norm |-> [x_min |-> x_min, y_min |-> y_min, x_max |-> x_max, y_max |-> y_max]]

DetectorRecords ==
    {[route |-> "detect", record |-> DetectedRecord(<<"7">>, a, b, c, e)] :
        a \in CornerCoords, b \in CornerCoords, c \in CornerCoords, e \in CornerCoords}
    \cup
    {[route |-> "vision", record |-> VisionToken(<<"7">>, a, b, c, e)] :
        a \in CornerCoords, b \in CornerCoords, c \in CornerCoords, e \in CornerCoords}

InitConvert ==
    /\ EngineIdle
    /\ ProbeIdle
    /\ PolicyIdle
    /\ LayoutIdle
    /\ EditorIdle
    /\ PartitionIdle
    /\ RouteIdle
    /\ FloodIdle
    /\ GlyphIdle
    /\ HookIdle
    /\ DetectIdle
    /\ PostIdle
    /\ detectorRecord \in {Some(r) : r \in DetectorRecords}
    /\ converted = None

\* parseDetectionResult on a page of CanvasSide x CanvasSide pixels
ParseDetection ==
    /\ detectorRecord # None
    /\ detectorRecord[1].route = "detect"
    /\ converted = None
    /\ LET number == ParsedNumber(detectorRecord[1].record, CanvasSide, CanvasSide)
       IN  converted' = Some([dropped |-> FALSE,
                              rect |-> [x |-> number.bbox.xn, y |-> number.bbox.yn,
                                        width |-> number.bbox.width,
                                        height |-> number.bbox.height, d |-> 1]])
    /\ UNCHANGED <<outsideConvert, detectorRecord>>

\* parseVisionResponse drops the token or keeps it for normalizedBboxToCSS
ParseVision ==
    /\ detectorRecord # None
    /\ detectorRecord[1].route = "vision"
    /\ converted = None
    /\ LET bbox == detectorRecord[1].record.bbox_norm
       IN  converted' =
               Some([dropped |-> ~ValidBboxNorm(bbox),
                     rect |-> normalizedBboxToCSS(bbox, CanvasSide, CanvasSide)])
    /\ UNCHANGED <<outsideConvert, detectorRecord>>

NextConvert == ParseDetection \/ ParseVision

SpecConvert == InitConvert /\ [][NextConvert]_vars

\* ------------------------------------------------------------------------
\* CanvasImageEditor: generateWithVerification, one step per stretch of code
\* between two awaits
\* ------------------------------------------------------------------------

\* const MAX_RETRY_ATTEMPTS = 3
MAX_RETRY_ATTEMPTS == 3

\* type EditorState
EditorState ==
    {"idle", "loading-detect", "detect-complete", "generating", "verifying", "complete",
     "error"}

\* the image of imageFile
Worksheet == "worksheet"

\* a drawReplacementsOnCanvas that paints over whatever the canvas shows
drawImageToCanvasKeep(cv, image) == cv

\* drawImageToCanvas(canvas, image, 600): the assignment of canvas.width
\* clears the canvas and drawImage covers all of it with the image
drawImageToCanvas(cv, image) == [image |-> image, edits |-> <<>>]

\* replaceNumbersOnCanvas(ctx, replacements): a mask and a text per replacement
replaceNumbersOnCanvas(cv, replacementsWithBbox) ==
    [cv EXCEPT !.edits =
        @ \o [k \in 1..Len(replacementsWithBbox) |->
                 [bbox |-> replacementsWithBbox[k].bbox,
                  text |-> replacementsWithBbox[k].replacement]]]

\* drawReplacementsOnCanvas(replacementsWithBbox), canvas and image mounted
drawReplacementsOnCanvas(cv, image, replacementsWithBbox) ==
    IF cv # NoCanvas /\ image # "none"
    THEN replaceNumbersOnCanvas(drawImageToCanvas(cv, image), replacementsWithBbox)
    ELSE cv

\* what generateUniqueRandomReplacements(numbers) can return: a good draw ends
\* the do-while at once and a draw that is the original or already used ends
\* it as the last of maxAttempts such draws, so every value of
\* generateRandomNumber can be the replacement of a number
generateUniqueRandomReplacements(allTexts) ==
    {randomReplacements \in
         [1..Len(allTexts) ->
             UNION {generateRandomNumber(allTexts[k]) : k \in 1..Len(allTexts)}] :
        \A k \in 1..Len(allTexts) :
            randomReplacements[k] \in generateRandomNumber(allTexts[k])}

\* the bbox made of the corners of a recognised symbol
PixelBox(x0, y0, x1, y1) == [x |-> x0, y |-> y0, width |-> x1 - x0, height |-> y1 - y0]

\* a number of the OCR pass: { text, bbox }
DetectedNumber(text, bbox) == [text |-> text, bbox |-> bbox]

\* what the OCR pass may have reported: one number, two different numbers,
\* the same number twice; detectWithTesseract throws when it found none
DetectedLists ==
    {<<DetectedNumber(<<"5">>, PixelBox(2, 2, 4, 5))>>,
     <<DetectedNumber(<<"5">>, PixelBox(2, 2, 4, 5)),
       DetectedNumber(<<"7">>, PixelBox(8, 2, 10, 5))>>,
     <<DetectedNumber(<<"7">>, PixelBox(8, 2, 10, 5)),
       DetectedNumber(<<"7">>, PixelBox(8, 8, 10, 11))>>}

\* the editor after loadImage and a successful detectWithTesseract
InitEditor ==
    /\ EngineIdle
    /\ ProbeIdle
    /\ PolicyIdle
    /\ LayoutIdle
    /\ ConvertIdle
    /\ PartitionIdle
    /\ RouteIdle
    /\ FloodIdle
    /\ GlyphIdle
    /\ HookIdle
    /\ DetectIdle
    /\ PostIdle
    /\ state = "detect-complete"
    /\ detectedNumbers \in DetectedLists
    /\ shownReplacements = <<>>
    /\ originalImageRef = Worksheet
    /\ editorCanvas = [image |-> Worksheet, edits |-> <<>>]
    /\ pcRun = "idle"
    /\ retryAttempts = 0
    /\ isValid = FALSE
    /\ currentReplacements = <<>>
    /\ cycles = 0

\* a loop test that allows one attempt more
WhileOneMore == ~isValid /\ retryAttempts < MAX_RETRY_ATTEMPTS + 1

\* while (!isValid && attempts < MAX_RETRY_ATTEMPTS)
WhileCondition == ~isValid /\ retryAttempts < MAX_RETRY_ATTEMPTS

\* the generate button: generateWithVerification up to the while test
StartRun ==
    /\ state = "detect-complete"
    /\ pcRun = "idle"
    /\ Len(detectedNumbers) # 0
    /\ state' = "generating"
    /\ retryAttempts' = 0
    /\ isValid' = FALSE
    /\ currentReplacements' = <<>>
    /\ cycles' = 0
    /\ pcRun' = "loop"
    /\ UNCHANGED <<detectedNumbers, shownReplacements, editorCanvas, originalImageRef,
                   outsideEditor>>

\* the loop body up to await verifyWithAI()
Attempt ==
    /\ pcRun = "loop"
    /\ WhileCondition
    /\ retryAttempts' = retryAttempts + 1
    /\ \E randomReplacements \in
           generateUniqueRandomReplacements(
               [k \in 1..Len(detectedNumbers) |-> detectedNumbers[k].text]) :
         currentReplacements' =
             [k \in 1..Len(detectedNumbers) |->
                 [original |-> detectedNumbers[k].text,
                  replacement |-> IF randomReplacements[k] # <<>>
                                  THEN randomReplacements[k]
                                  ELSE detectedNumbers[k].text,
                  bbox |-> detectedNumbers[k].bbox]]
    /\ editorCanvas' =
           drawReplacementsOnCanvas(editorCanvas, originalImageRef, currentReplacements')
    /\ state' = "verifying"
    /\ cycles' = cycles + 1
    /\ pcRun' = "await"
    /\ UNCHANGED <<detectedNumbers, shownReplacements, originalImageRef, isValid,
                   outsideEditor>>

\* what the awaited verifyWithAI() brings: allValid, a rejection, or an error
VerifierAnswers == {"allValid", "rejected", "error"}

\* the rest of the loop body after the await
VerifierReply ==
    /\ pcRun = "await"
    /\ \E answer \in VerifierAnswers :
         /\ isValid' = (answer \in {"allValid", "error"})
         /\ state' = IF answer = "rejected" THEN "generating" ELSE state
    /\ pcRun' = "loop"
    /\ UNCHANGED <<detectedNumbers, shownReplacements, editorCanvas, originalImageRef,
                   retryAttempts, currentReplacements, cycles, outsideEditor>>

\* after the loop: setReplacements, setState('complete'), onComplete?.(), and
\* setState('error') when onComplete throws
FinishRun ==
    /\ pcRun = "loop"
    /\ ~WhileCondition
    /\ shownReplacements' = currentReplacements
    /\ \E onComplete \in {"returns", "throws"} :
         state' = IF onComplete = "returns" THEN "complete" ELSE "error"
    /\ pcRun' = "returned"
    /\ UNCHANGED <<detectedNumbers, editorCanvas, originalImageRef, retryAttempts, isValid,
                   currentReplacements, cycles, outsideEditor>>

\* the reset button of the complete state; the locals of the finished run
\* are gone
Reset ==
    /\ state = "complete"
    /\ pcRun = "returned"
    /\ editorCanvas' = IF editorCanvas # NoCanvas /\ originalImageRef # "none"
                       THEN drawImageToCanvas(editorCanvas, originalImageRef)
                       ELSE editorCanvas
    /\ shownReplacements' = <<>>
    /\ state' = "detect-complete"
    /\ pcRun' = "idle"
    /\ retryAttempts' = 0
    /\ isValid' = FALSE
    /\ currentReplacements' = <<>>
    /\ cycles' = 0
    /\ UNCHANGED <<detectedNumbers, originalImageRef, outsideEditor>>

\* the steps of a run that the event loop takes once they are enabled
RunStep == Attempt \/ VerifierReply \/ FinishRun

NextEditor ==
    \/ StartRun
    \/ Attempt
    \/ VerifierReply
    \/ FinishRun
    \/ Reset

\* the continuation of an async function runs once its await has settled,
\* and every verifyWithAI() call settles with an answer or an error
SpecEditor == InitEditor /\ [][NextEditor]_vars /\ WF_vars(RunStep)

\* ------------------------------------------------------------------------
\* CanvasImageEditor: detectWithTesseract under changes of the imageFile
\* prop.  The effect starts a run for every new imageFile; a run is one call
\* of detectWithTesseract, taken one step per stretch of code between two
\* awaits.  Runs share the canvas, originalImageRef and the component state.
\* ------------------------------------------------------------------------

\* the files the owner passes as imageFile, one after the other
ImageFiles == {"first.png", "second.png", "third.png"}

\* the numbers the OCR pass finds on the canvas showing an image; the third
\* file is a page without digits
RecognizedOn(image) ==
    CASE image = "first.png" -> <<DetectedNumber(<<"5">>, PixelBox(2, 2, 4, 5))>>
      [] image = "second.png" -> <<DetectedNumber(<<"7">>, PixelBox(8, 2, 10, 5))>>
      [] OTHER -> <<>>

\* a call of detectWithTesseract up to its first await
DetectionRun(file) == [file |-> file, at |-> "loadImage", numbers |-> <<>>]

\* the mounted editor after its first render and effect
InitDetect ==
    /\ EngineIdle
    /\ ProbeIdle
    /\ PolicyIdle
    /\ LayoutIdle
    /\ ConvertIdle
    /\ PartitionIdle
    /\ RouteIdle
    /\ FloodIdle
    /\ GlyphIdle
    /\ HookIdle
    /\ PostIdle
    /\ imageFile \in ImageFiles
    /\ detectRuns = <<DetectionRun(imageFile)>>
    /\ state = "loading-detect"
    /\ detectedNumbers = <<>>
    /\ shownReplacements = <<>>
    /\ originalImageRef = "none"
    /\ editorCanvas = [image |-> "blank", edits |-> <<>>]
    /\ pcRun = "idle"
    /\ retryAttempts = 0
    /\ isValid = FALSE
    /\ currentReplacements = <<>>
    /\ cycles = 0

\* the owner passes another file: loadImage and detectWithTesseract are made
\* anew and the effect calls detectWithTesseract, which sets 'loading-detect'
ImageFileChange ==
    /\ Len(detectRuns) < Cardinality(ImageFiles)
    /\ \E file \in ImageFiles :
          /\ \A r \in 1..Len(detectRuns) : detectRuns[r].file # file
          /\ imageFile' = file
          /\ detectRuns' = Append(detectRuns, DetectionRun(file))
    /\ state' = "loading-detect"
    /\ UNCHANGED <<outsideDetection, detectedNumbers, editorCanvas, originalImageRef>>

\* img.onload: loadImage sets originalImageRef and draws the image
ImageLoaded ==
    \E r \in 1..Len(detectRuns) :
        /\ detectRuns[r].at = "loadImage"
        /\ originalImageRef' = detectRuns[r].file
        /\ editorCanvas' = drawImageToCanvas(editorCanvas, detectRuns[r].file)
        /\ detectRuns' = [detectRuns EXCEPT ![r].at = "createWorker"]
        /\ UNCHANGED <<outsideDetection, imageFile, state, detectedNumbers>>

\* img.onerror: loadImage rejects and the catch sets 'error'
ImageFailed ==
    \E r \in 1..Len(detectRuns) :
        /\ detectRuns[r].at = "loadImage"
        /\ state' = "error"
        /\ detectRuns' = [detectRuns EXCEPT ![r].at = "returned"]
        /\ UNCHANGED <<outsideDetection, imageFile, detectedNumbers, editorCanvas,
                       originalImageRef>>

\* the worker is ready: worker.recognize(canvasRef.current) reads the canvas
WorkerCreated ==
    \E r \in 1..Len(detectRuns) :
        /\ detectRuns[r].at = "createWorker"
        /\ detectRuns' = [detectRuns EXCEPT
               ![r].at = "recognize",
               ![r].numbers = RecognizedOn(editorCanvas.image)]
        /\ UNCHANGED <<outsideDetection, imageFile, state, detectedNumbers, editorCanvas,
                       originalImageRef>>

\* recognize has answered; worker.terminate() is awaited
Recognized ==
    \E r \in 1..Len(detectRuns) :
        /\ detectRuns[r].at = "recognize"
        /\ detectRuns' = [detectRuns EXCEPT ![r].at = "terminate"]
        /\ UNCHANGED <<outsideDetection, imageFile, state, detectedNumbers, editorCanvas,
                       originalImageRef>>

\* the rest of detectWithTesseract: throw when no number was found, else
\* setDetectedNumbers(numbers) and setState('detect-complete')
DetectionDone ==
    \E r \in 1..Len(detectRuns) :
        /\ detectRuns[r].at = "terminate"
        /\ IF detectRuns[r].numbers = <<>>
           THEN state' = "error" /\ UNCHANGED detectedNumbers
           ELSE state' = "detect-complete" /\ detectedNumbers' = detectRuns[r].numbers
        /\ detectRuns' = [detectRuns EXCEPT ![r].at = "returned"]
        /\ UNCHANGED <<outsideDetection, imageFile, editorCanvas, originalImageRef>>

NextDetect ==
    \/ ImageFileChange
    \/ ImageLoaded
    \/ ImageFailed
    \/ WorkerCreated
    \/ Recognized
    \/ DetectionDone

SpecDetect == InitDetect /\ [][NextDetect]_vars

\* ------------------------------------------------------------------------
\* The safety filter run twice over one token list
\* ------------------------------------------------------------------------

\* a classifier that stores the defaulted role in the token it was given
DetectionWithRole(detection) == [detection EXCEPT !.role = RoleOf(detection)]

\* the token after isSafeReplacementToken: { text, bbox, role = 'base' } binds
\* locals and nothing is assigned to detection
DetectionAfter(detection) == detection

\* a token list and the page it is classified against
InitPartition ==
    /\ RouteIdle
    /\ FloodIdle
    /\ GlyphIdle
    /\ HookIdle
    /\ DetectIdle
    /\ PostIdle
    /\ \E paper \in Papers : canvas = Page(paper)
    /\ original = canvas
    /\ imageData = canvas
    /\ detections \in DetectionLists
    /\ options = DefaultOptions
    /\ pc = "classify"
    /\ i = 1
    /\ replacements = EmptyMap
    /\ drawInfos = <<>>
    /\ imageDataModified = FALSE
    /\ writes = <<>>
    /\ drawn = <<>>
    /\ ProbeIdle
    /\ PolicyIdle
    /\ LayoutIdle
    /\ ConvertIdle
    /\ EditorIdle
    /\ given = detections
    /\ current = <<>>
    /\ passes = <<>>

\* isSafeReplacementToken(detection, canvasWidth, canvasHeight) on the next token
ClassifyToken ==
    /\ pc = "classify"
    /\ i <= Len(detections)
    /\ current' = Append(current,
                         isSafeReplacementToken(detections[i], canvas.width, canvas.height))
    /\ detections' = [detections EXCEPT ![i] = DetectionAfter(detections[i])]
    /\ i' = i + 1
    /\ UNCHANGED <<canvas, original, imageData, options, pc, replacements, drawInfos,
                   imageDataModified, writes, drawn, given, passes, outsidePartition>>

\* the end of a pass over the list; a second pass follows the first
EndPass ==
    /\ pc = "classify"
    /\ i > Len(detections)
    /\ passes' = Append(passes, current)
    /\ current' = <<>>
    /\ i' = 1
    /\ pc' = IF Len(passes) = 0 THEN "classify" ELSE "done"
    /\ UNCHANGED <<canvas, original, imageData, detections, options, replacements,
                   drawInfos, imageDataModified, writes, drawn, given, outsidePartition>>

NextPartition == ClassifyToken \/ EndPass

SpecPartition == InitPartition /\ [][NextPartition]_vars

\* ------------------------------------------------------------------------
\* The detect route in front of the engine: parseDetectionResult makes the
\* detections that smartEraseAndReplace is called with
\* ------------------------------------------------------------------------

\* roles a reply of the detector may carry for a digit: none, basic ones, and
\* roles of the DETECTION_PROMPT vocabulary for fractions, roots and matrices
ReplyRoles == {Undefined, "base", "sup", "fraction-num", "sqrt-content", "matrix-element"}

\* records of a reply: the digit on the rule under each role, and a digit
\* over the faint pencil mark reported as a denominator
ReplyRecords ==
    {[DetectedRecord(<<"7">>, 200, 500, 300, 600) EXCEPT !.role = r] : r \in ReplyRoles}
        \cup {[DetectedRecord(<<"3">>, 700, 150, 800, 250) EXCEPT !.role = "fraction-den"]}

\* parsed.numbers: lists of distinct records
ReplyLists ==
    {s \in UNION {[1..n -> ReplyRecords] : n \in 0..MaxDetections} :
        \A a, b \in 1..Len(s) : a # b => s[a] # s[b]}

\* smartEraseAndReplace is entered with the numbers parseDetectionResult returned
InitRoute ==
    /\ ProbeIdle
    /\ PolicyIdle
    /\ LayoutIdle
    /\ ConvertIdle
    /\ EditorIdle
    /\ PartitionIdle
    /\ FloodIdle
    /\ GlyphIdle
    /\ HookIdle
    /\ DetectIdle
    /\ PostIdle
    /\ \E paper \in Papers : canvas = Page(paper)
    /\ original = canvas
    /\ imageData = canvas
    /\ reported \in ReplyLists
    /\ detections = [k \in 1..Len(reported) |->
                        ParsedNumber(reported[k], canvas.width, canvas.height)]
    /\ options \in OptionChoices
    /\ pc = "phase1"
    /\ i = 1
    /\ replacements = EmptyMap
    /\ drawInfos = <<>>
    /\ imageDataModified = FALSE
    /\ writes = <<>>
    /\ drawn = <<>>

SpecRoute == InitRoute /\ [][Next]_vars

\* ------------------------------------------------------------------------
\* Single calls of floodFillErase
\* ------------------------------------------------------------------------

\* side of the small images a call is made on
FloodSide == 9

\* ink lighter than black
InkGrey == Rgb(100, 100, 100)

\* a white image of the given side with the colours of paint laid over it
Painted(side, paint) ==
    [width |-> side, height |-> side,
     data |-> [k \in 0..(side * side - 1) |->
                 IF <<k % side, k \div side>> \in DOMAIN paint
                 THEN paint[<<k % side, k \div side>>]
                 ELSE White]]

\* the pixels of the small images that vary: five at the centre of the
\* boxes and one three columns to the right of it
SmallSpots == {<<3, 4>>, <<4, 4>>, <<5, 4>>, <<4, 5>>, <<5, 5>>, <<7, 4>>}

\* a grey stroke through the centre of the wide box, and the two pixels
\* next to its ends that vary
WideStroke == [p \in ((4..9) \X {7}) \cup ((6..8) \X {6, 8}) |-> InkGrey]

WideSpots == {<<3, 7>>, <<10, 7>>}

\* calls on the small images: a two-pixel box and a four-pixel box around
\* the same centre, with a padding of one or two pixels
SmallCalls ==
    {[imageData |-> Painted(FloodSide, paint), bbox |-> bbox, padding |-> padding] :
        paint \in [SmallSpots -> {White, InkGrey, Black}],
        bbox \in {IntBox(3, 3, 2, 2), IntBox(2, 2, 4, 4)},
        padding \in {1, 2}}

\* calls on a larger image with a box of 13 pixels (searchRadius = 3.25)
WideCalls ==
    {[imageData |-> Painted(FloodSide + 7, paint @@ WideStroke),
      bbox |-> IntBox(1, 1, 13, 13), padding |-> padding] :
        paint \in [WideSpots -> {White, Black}],
        padding \in {1, 2}}

InitFlood ==
    /\ EngineIdle
    /\ ProbeIdle
    /\ PolicyIdle
    /\ LayoutIdle
    /\ ConvertIdle
    /\ EditorIdle
    /\ PartitionIdle
    /\ RouteIdle
    /\ GlyphIdle
    /\ HookIdle
    /\ DetectIdle
    /\ PostIdle
    /\ floodCall \in {Some(call) : call \in SmallCalls \cup WideCalls}
    /\ floodReturn = None

\* seedX, seedY and darkestLum at the end of Step 1 of floodFillErase
SeedOf(img, bbox, padding) ==
    FindSeed(img, bbox,
        Max(0, Floor(bbox.xn - padding * bbox.d, bbox.d)),
        Max(0, Floor(bbox.yn - padding * bbox.d, bbox.d)),
        Min(img.width - 1, Ceil(bbox.xn + (bbox.width + padding) * bbox.d, bbox.d)),
        Min(img.height - 1, Ceil(bbox.yn + (bbox.height + padding) * bbox.d, bbox.d)))

\* floodFillErase(imageData, bbox, padding): data is only read
FloodFill ==
    /\ floodCall # None
    /\ floodReturn = None
    /\ LET call == floodCall[1]
       IN  floodReturn' =
               Some([result |-> floodFillErase(call.imageData, call.bbox, call.padding),
                     seed |-> SeedOf(call.imageData, call.bbox, call.padding),
                     imageData |-> call.imageData])
    /\ UNCHANGED <<outsideFlood, floodCall>>

NextFlood == FloodFill

SpecFlood == InitFlood /\ [][NextFlood]_vars

\* ------------------------------------------------------------------------
\* Single calls of the drawing routines of Phase 2: drawWithKerning and
\* drawCentered.  Horizontal positions are fractions xn / xd of a pixel;
\* ctx.measureText is given by the advance width of a digit, in hundredths
\* of the font size.
\* ------------------------------------------------------------------------

\* FONT_PRESETS[...].letterSpacingFactor, in hundredths
LetterSpacing100(preset) ==
    CASE preset = "maru-gothic" -> 5
      [] preset = "gothic" -> 5
      [] preset = "mincho" -> 3
      [] preset = "handwritten" -> 8

\* CharBbox
CharBbox(char, xmin, xmax) == [char |-> char, xmin |-> xmin, xmax |-> xmax]

\* ctx.measureText(text).width, in hundredths of a pixel
measureText(text, fontSize, digitAdvance100) == Len(text) * fontSize * digitAdvance100

\* cursorX before character k is drawn, in units of 1 / (200 * bbox.d), when
\* every advance is the measured width plus the letter spacing
RECURSIVE CursorMeasured(_, _, _, _, _, _)
CursorMeasured(k, text, bbox, preset, fontSize, digitAdvance100) ==
    IF k = 1 THEN 200 * bbox.xn
    ELSE CursorMeasured(k - 1, text, bbox, preset, fontSize, digitAdvance100)
             + 2 * bbox.d * (measureText(<<text[k - 1]>>, fontSize, digitAdvance100)
                             + fontSize * LetterSpacing100(preset))

\* a drawWithKerning that ignores the original advances
drawWithKerningMeasured(text, bbox, baselineY, charBboxes, preset, fontSize, digitAdvance100) ==
    [k \in 1..Len(text) |->
        [text |-> <<text[k]>>,
         xn |-> CursorMeasured(k, text, bbox, preset, fontSize, digitAdvance100),
         xd |-> 200 * bbox.d,
         y |-> baselineY]]

\* originalAdvances
OriginalAdvances(charBboxes) ==
    [k \in 1..(Len(charBboxes) - 1) |-> charBboxes[k + 1].xmin - charBboxes[k].xmin]

\* cursorX before character k is drawn, in units of 1 / (200 * bbox.d)
RECURSIVE CursorX(_, _, _, _, _, _, _)
CursorX(k, text, bbox, charBboxes, preset, fontSize, digitAdvance100) ==
    IF k = 1 THEN 200 * bbox.xn
    ELSE CursorX(k - 1, text, bbox, charBboxes, preset, fontSize, digitAdvance100)
         + 2 * bbox.d
             * (IF k - 1 \in DOMAIN OriginalAdvances(charBboxes)
                   /\ OriginalAdvances(charBboxes)[k - 1] > 0
                THEN 100 * OriginalAdvances(charBboxes)[k - 1]
                ELSE measureText(<<text[k - 1]>>, fontSize, digitAdvance100)
                         + fontSize * LetterSpacing100(preset))

\* drawWithKerning: the fillText calls it makes
drawWithKerning(text, bbox, baselineY, charBboxes, preset, fontSize, digitAdvance100) ==
    [k \in 1..Len(text) |->
        [text |-> <<text[k]>>,
         xn |-> CursorX(k, text, bbox, charBboxes, preset, fontSize, digitAdvance100),
         xd |-> 200 * bbox.d,
         y |-> baselineY]]

\* drawCentered: the fillText call it makes
drawCentered(text, bbox, baselineY, fontSize, digitAdvance100) ==
    <<[text |-> text,
       xn |-> 200 * bbox.xn + 100 * bbox.width * bbox.d
                  - measureText(text, fontSize, digitAdvance100) * bbox.d,
       xd |-> 200 * bbox.d,
       y |-> baselineY]>>

\* charBboxes a detector may attach to a token whose first character starts
\* at x = 10: none, an empty list, one box, and two boxes six pixels apart,
\* at the same xmin, and in reverse order
CharBboxChoices ==
    {None, Some(<<>>), Some(<<CharBbox("1", 10, 15)>>)}
        \cup {Some(<<CharBbox("1", 10, 15), CharBbox("5", 10 + gap, 15 + gap)>>) :
                 gap \in {6, 0, 0 - 3}}

\* DrawInfo records at the head of the Phase 2 loop, with the metrics of the
\* font in use
DrawCalls ==
    {[newNumber |-> newNumber, bbox |-> bbox, baselineY |-> 12,
      charBboxes |-> charBboxes, preset |-> preset, fontSize |-> fontSize,
      digitAdvance100 |-> digitAdvance100] :
        newNumber \in {<<"7">>, <<"4", "2">>},
        bbox \in {IntBox(10, 4, 12, 10),
                  [xn |-> 21, yn |-> 8, d |-> 2, width |-> 12, height |-> 10]},
        charBboxes \in CharBboxChoices,
        preset \in FontStyles,
        fontSize \in {10, 13},
        digitAdvance100 \in {50, 60}}

InitGlyph ==
    /\ EngineIdle
    /\ ProbeIdle
    /\ PolicyIdle
    /\ LayoutIdle
    /\ ConvertIdle
    /\ EditorIdle
    /\ PartitionIdle
    /\ RouteIdle
    /\ FloodIdle
    /\ HookIdle
    /\ DetectIdle
    /\ PostIdle
    /\ drawCall \in {Some(call) : call \in DrawCalls}
    /\ fillTextCalls = None

\* the drawing of one DrawInfo in Phase 2
DrawToken ==
    /\ drawCall # None
    /\ fillTextCalls = None
    /\ LET call == drawCall[1]
       IN  fillTextCalls' =
               Some(IF DrawRoutine(call.charBboxes, call.newNumber) = "drawWithKerning"
                    THEN drawWithKerning(call.newNumber, call.bbox, call.baselineY,
                                         call.charBboxes[1], call.preset, call.fontSize,
                                         call.digitAdvance100)
                    ELSE drawCentered(call.newNumber, call.bbox, call.baselineY,
                                      call.fontSize, call.digitAdvance100))
    /\ UNCHANGED <<outsideGlyph, drawCall>>

NextGlyph == DrawToken

SpecGlyph == InitGlyph /\ [][NextGlyph]_vars

\* ------------------------------------------------------------------------
\* useLocalStorageState: one mounted component using the hook.  A render
\* commits the queued state updates and the key prop; its effects then run in
\* the order they are declared, the read effect before the write effect.
\* ------------------------------------------------------------------------

\* how many times the component's owner sets the value or changes the key
MaxEvents == 3

\* the values of the state; the first is options.defaultValue
HookValues == {"d", "a", "b"}

defaultValue == "d"

\* the keys the owner passes
HookKeys == {"k1", "k2"}

\* defaultSerialize: JSON.stringify(value)
defaultSerialize(v) == <<"json", v>>

\* a stored string that is not JSON
NotJson == <<"{">>

\* defaultParse(raw, fallback); a raw of None is null
defaultParse(raw, fallback) ==
    IF raw = None THEN fallback
    ELSE IF Len(raw) = 2 /\ raw[1] = "json" THEN raw[2]
    ELSE fallback

\* what localStorage may hold under a key at mount: nothing, a value written
\* by an earlier session, or a string that does not parse
StoredAtMount == {None, defaultSerialize("a"), NotJson}

\* no state update is queued and the key prop is the committed one
NoUpdates == [value |-> None, hydrated |-> FALSE, key |-> None]

\* after the first render: value = defaultValue, hydrated = false, both effects due
InitHook ==
    /\ EngineIdle
    /\ ProbeIdle
    /\ PolicyIdle
    /\ LayoutIdle
    /\ ConvertIdle
    /\ EditorIdle
    /\ PartitionIdle
    /\ RouteIdle
    /\ FloodIdle
    /\ GlyphIdle
    /\ DetectIdle
    /\ PostIdle
    /\ localStorage \in [HookKeys -> StoredAtMount]
    /\ hookKey = "k1"
    /\ hookValue = defaultValue
    /\ hydrated = FALSE
    /\ lastSerializedRef = None
    /\ queued = NoUpdates
    /\ effectsDue = {"read", "write"}
    /\ pcHook = "read"
    /\ hookReads = {}
    /\ eventsLeft = MaxEvents

\* useEffect(..., [key]): getItem, parse, setValue(next), setHydrated(true)
ReadEffect ==
    /\ pcHook = "read"
    /\ IF "read" \in effectsDue
       THEN /\ queued' = [queued EXCEPT
                   !.value = Some(defaultParse(localStorage[hookKey], defaultValue)),
                   !.hydrated = TRUE]
            /\ hookReads' = hookReads \cup {hookKey}
       ELSE UNCHANGED <<queued, hookReads>>
    /\ pcHook' = "write"
    /\ UNCHANGED <<outsideHook, localStorage, hookKey, hookValue, hydrated,
                   lastSerializedRef, effectsDue, eventsLeft>>

\* useEffect(..., [hydrated, key, value, serialize]): setItem unless not
\* hydrated or the serialized value is the one written last
WriteEffect ==
    /\ pcHook = "write"
    /\ IF "write" \in effectsDue /\ hydrated
          /\ defaultSerialize(hookValue) # lastSerializedRef
       THEN /\ localStorage' = [localStorage EXCEPT ![hookKey] = defaultSerialize(hookValue)]
            /\ lastSerializedRef' = defaultSerialize(hookValue)
       ELSE UNCHANGED <<localStorage, lastSerializedRef>>
    /\ pcHook' = "idle"
    /\ effectsDue' = {}
    /\ UNCHANGED <<outsideHook, hookKey, hookValue, hydrated, queued, hookReads, eventsLeft>>

\* the owner calls the returned setValue with a value of its own
SetValue ==
    /\ pcHook = "idle"
    /\ eventsLeft > 0
    /\ \E v \in HookValues \ {defaultValue} : queued' = [queued EXCEPT !.value = Some(v)]
    /\ eventsLeft' = eventsLeft - 1
    /\ UNCHANGED <<outsideHook, localStorage, hookKey, hookValue, hydrated,
                   lastSerializedRef, effectsDue, pcHook, hookReads>>

\* the owner passes another key with its next render
KeyChange ==
    /\ pcHook = "idle"
    /\ eventsLeft > 0
    /\ \E k \in HookKeys :
          /\ k # (IF queued.key # None THEN queued.key[1] ELSE hookKey)
          /\ queued' = [queued EXCEPT !.key = Some(k)]
    /\ eventsLeft' = eventsLeft - 1
    /\ UNCHANGED <<outsideHook, localStorage, hookKey, hookValue, hydrated,
                   lastSerializedRef, effectsDue, pcHook, hookReads>>

\* the next render commits: queued updates are applied, and the effects whose
\* dependencies changed become due
Render ==
    /\ pcHook = "idle"
    /\ queued # NoUpdates
    /\ hookKey' = IF queued.key # None THEN queued.key[1] ELSE hookKey
    /\ hookValue' = IF queued.value # None THEN queued.value[1] ELSE hookValue
    /\ hydrated' = (hydrated \/ queued.hydrated)
    /\ effectsDue' = (IF hookKey' # hookKey THEN {"read", "write"} ELSE {})
                        \cup (IF hookValue' # hookValue \/ hydrated' # hydrated
                              THEN {"write"} ELSE {})
    /\ pcHook' = IF effectsDue' = {} THEN "idle" ELSE "read"
    /\ queued' = NoUpdates
    /\ UNCHANGED <<outsideHook, localStorage, lastSerializedRef, hookReads, eventsLeft>>

NextHook ==
    \/ ReadEffect
    \/ WriteEffect
    \/ SetValue
    \/ KeyChange
    \/ Render

SpecHook == InitHook /\ [][NextHook]_vars

\* ------------------------------------------------------------------------
\* The generate route (POST) and the client that calls it.  An error message
\* is the set of the lower-cased phrases it contains.
\* ------------------------------------------------------------------------

\* GEMINI_MODEL_LIST, in priority order
GEMINI_MODEL_LIST ==
    <<"gemini-2.5-flash-lite", "gemini-2.0-flash-lite", "gemma-3-27b-it", "gemini-2.0-flash">>

\* const RATE_LIMIT_WAIT_SECONDS = 60
RATE_LIMIT_WAIT_SECONDS == 60

\* isRateLimitErrorMessage(message)
isRateLimitErrorMessage(message) ==
    message \cap {"429", "quota", "rate limit", "resource exhausted"} # {}

\* isNotFoundErrorMessage(message)
isNotFoundErrorMessage(message) ==
    message \cap {"404", "not found"} # {}

\* s.filter((m) => m !== cleaned)
RECURSIVE SelectModels(_, _)
SelectModels(s, cleaned) ==
    IF s = <<>> THEN <<>>
    ELSE IF s[1] # cleaned THEN <<s[1]>> \o SelectModels(Tail(s), cleaned)
    ELSE SelectModels(Tail(s), cleaned)

\* getModelsToTry(), envModel with its models/ prefix removed
getModelsToTry(envModel) ==
    IF envModel # None
    THEN <<envModel[1]>> \o SelectModels(GEMINI_MODEL_LIST, envModel[1])
    ELSE GEMINI_MODEL_LIST

\* the model named by the environment: none, one of the list, one outside it
EnvModels == {None, Some("gemma-3-27b-it"), Some("gemini-1.5-pro")}

\* messages of the errors a model call can end with
ErrorMessages ==
    {{"429", "too many requests"}, {"resource exhausted"}, {"404", "not found"},
     {"quota", "not found"}, {"fetch failed"}}

\* what tryGenerateWithModel returned for a model call that failed
FailedAttempt(message) ==
    [success |-> FALSE, error |-> message, isRateLimit |-> isRateLimitErrorMessage(message)]

\* a status that looks only at the last error
ResponseStatusOfLastError(flagAllRateLimited, lastMessage) ==
    IF lastMessage # None /\ isRateLimitErrorMessage(lastMessage[1]) THEN 429
    ELSE IF lastMessage # None /\ isNotFoundErrorMessage(lastMessage[1]) THEN 404
    ELSE 500

\* the status answered after the loop: 429, 404 or 500
ResponseStatus(flagAllRateLimited, lastMessage) ==
    IF flagAllRateLimited THEN 429
    ELSE IF lastMessage # None /\ isNotFoundErrorMessage(lastMessage[1]) THEN 404
    ELSE 500

\* POST after getModelsToTry(), with the client waiting for the answer
InitPost ==
    /\ EngineIdle
    /\ ProbeIdle
    /\ PolicyIdle
    /\ LayoutIdle
    /\ ConvertIdle
    /\ EditorIdle
    /\ PartitionIdle
    /\ RouteIdle
    /\ FloodIdle
    /\ GlyphIdle
    /\ HookIdle
    /\ DetectIdle
    /\ modelsToTry \in {getModelsToTry(envModel) : envModel \in EnvModels}
    /\ tried = <<>>
    /\ lastError = None
    /\ allRateLimited = TRUE
    /\ response = None
    /\ waitSeconds = 0
    /\ pcPost = "loop"

\* one pass of the loop whose model call succeeds: the route answers the result
ModelSucceeds ==
    /\ pcPost = "loop"
    /\ Len(tried) < Len(modelsToTry)
    /\ tried' = Append(tried, [model |-> modelsToTry[Len(tried) + 1], success |-> TRUE,
                               error |-> {}])
    /\ response' = Some(200)
    /\ pcPost' = "answered"
    /\ UNCHANGED <<outsidePost, modelsToTry, lastError, allRateLimited, waitSeconds>>

\* one pass of the loop whose model call fails
ModelFails ==
    /\ pcPost = "loop"
    /\ Len(tried) < Len(modelsToTry)
    /\ \E message \in ErrorMessages :
          /\ tried' = Append(tried, [model |-> modelsToTry[Len(tried) + 1],
                                     success |-> FALSE, error |-> message])
          /\ lastError' = Some(FailedAttempt(message).error)
          /\ allRateLimited' = (allRateLimited /\ FailedAttempt(message).isRateLimit)
    /\ UNCHANGED <<outsidePost, modelsToTry, response, waitSeconds, pcPost>>

\* after the loop: all models failed
AllFailed ==
    /\ pcPost = "loop"
    /\ Len(tried) = Len(modelsToTry)
    /\ response' = Some(ResponseStatus(allRateLimited, lastError))
    /\ pcPost' = "answered"
    /\ UNCHANGED <<outsidePost, modelsToTry, tried, lastError, allRateLimited, waitSeconds>>

\* generate() of the page after the fetch: a 429 starts the wait
ClientReceives ==
    /\ pcPost = "answered"
    /\ waitSeconds' = IF response[1] = 429 THEN RATE_LIMIT_WAIT_SECONDS ELSE waitSeconds
    /\ pcPost' = "received"
    /\ UNCHANGED <<outsidePost, modelsToTry, tried, lastError, allRateLimited, response>>

NextPost ==
    \/ ModelSucceeds
    \/ ModelFails
    \/ AllFailed
    \/ ClientReceives

SpecPost == InitPost /\ [][NextPost]_vars

\* ------------------------------------------------------------------------
\* Properties of generateDifferentNumber
\* ------------------------------------------------------------------------

\* C1: for a token the safety filter accepts, whatever the random draws, the
\* digit of the replacement at each position differs from the digit of the
\* original text at that position, and so the replacement is not the original
C1_EveryDigitDiffers ==
    (generated # None /\ ProbeAccepted) =>
        /\ generated[1] # probe.text
        /\ \A n \in DOMAIN generated[1] \cap DOMAIN probe.text :
              generated[1][n] # probe.text[n]

\* a replacement has been generated for an accepted two-digit text
C1_Witness ==
    /\ generated # None
    /\ ProbeAccepted
    /\ Len(probe.text) = 2
    /\ Len(generated[1]) = 2

\* C2: for a token the safety filter accepts, the replacement has exactly as
\* many characters as the original text
C2_SameLength ==
    (generated # None /\ ProbeAccepted) => Len(generated[1]) = Len(probe.text)

\* a replacement with a leading zero has been generated for an accepted text
C2_Witness ==
    /\ generated # None
    /\ ProbeAccepted
    /\ Len(probe.text) > 1
    /\ generated[1][1] = "0"

\* ------------------------------------------------------------------------
\* Properties of isSafeReplacementToken
\* ------------------------------------------------------------------------

\* rule 1 of the specification: the text is a short integer of 1-2 digits
RuleShortInteger(token) ==
    Len(token.text) \in {1, 2} /\ \A n \in DOMAIN token.text : IsDigit(token.text[n])

\* rules 2 and 3: the role (base when absent) is neither complex nor a script
RulePlainRole(token) ==
    LET role == IF token.role = Undefined THEN "base" ELSE token.role
    IN  role \notin COMPLEX_ROLES /\ role \notin {"sup", "sub"}

\* rule 4: not degenerate, width <= 15% of W and height <= 10% of H
RuleBoxSize(token) ==
    /\ token.bbox.width > 0
    /\ token.bbox.height > 0
    /\ 100 * token.bbox.width <= 15 * token.canvasWidth
    /\ 100 * token.bbox.height <= 10 * token.canvasHeight

\* rule 5 as written: right edge at or beyond 95% of W, or top at or above 5% of H
InReservedMargin(token) ==
    \/ 100 * (token.bbox.xn + token.bbox.width * token.bbox.d)
           >= 95 * token.canvasWidth * token.bbox.d
    \/ 100 * token.bbox.yn <= 5 * token.canvasHeight * token.bbox.d

\* C5: isSafeReplacementToken returns true exactly when the five rules hold,
\* the reserved margins taken inclusive (right edge >= 95% of W, top <= 5% of H)
C5_FilterIsTheFiveRules ==
    verdict # None =>
        verdict[1] = (/\ RuleShortInteger(probe)
                      /\ RulePlainRole(probe)
                      /\ RuleBoxSize(probe)
                      /\ ~InReservedMargin(probe))

\* ------------------------------------------------------------------------
\* Properties of smartEraseAndReplace
\* ------------------------------------------------------------------------

\* detection k passes the safety filter
Accepted(k) == isSafeReplacementToken(detections[k], canvas.width, canvas.height)

\* the pixel keys of cv all lie in columns xa..xb and rows ya..yb
KeysBetween(cv, keys, xa, xb, ya, yb) ==
    /\ {key % cv.width : key \in keys} \subseteq xa..xb
    /\ {key \div cv.width : key \in keys} \subseteq ya..yb

\* the pixel keys of cv all touch bbox widened by n pixels on each side
InBox(cv, keys, bbox, n) ==
    KeysBetween(cv, keys,
                Floor(bbox.xn - n * bbox.d, bbox.d),
                Ceil(bbox.xn + (bbox.width + n) * bbox.d, bbox.d) - 1,
                Floor(bbox.yn - n * bbox.d, bbox.d),
                Ceil(bbox.yn + (bbox.height + n) * bbox.d, bbox.d) - 1)

\* the pixels inside the box of detection k are as they were before the call
BoxUntouched(k) ==
    \A key \in DOMAIN original.data :
        InBox(original, {key}, detections[k].bbox, 0) => canvas.data[key] = original.data[key]

\* C3: once smartEraseAndReplace has returned, every pixel inside the box of
\* a token the safety filter rejects has the value it had before the call
C3_RejectedBoxesUntouched ==
    pc = "done" =>
        \A k \in 1..Len(detections) : ~Accepted(k) => BoxUntouched(k)

\* the detection the k-th processed token came from
DetectionOf(k) == detections[writes[k].idx]

InBlobBudget(keys, bbox, padding) ==
    KeysBetween(original, keys,
                Floor(bbox.xn - padding * bbox.d, bbox.d) - expandedMargin - 1,
                Ceil(bbox.xn + (bbox.width + padding) * bbox.d, bbox.d) + expandedMargin + 1,
                Floor(bbox.yn - padding * bbox.d, bbox.d) - expandedMargin - 1,
                Ceil(bbox.yn + (bbox.height + padding) * bbox.d, bbox.d) + expandedMargin + 1)

C6_RejectedNotInMap ==
    pc = "done" =>
        \A k \in 1..Len(detections) :
            ~Accepted(k) =>
                /\ detections[k].text \notin DOMAIN replacements
                /\ BoxUntouched(k)

\* C7: for no processed token is the rectangle filled after its blob erasure
\* has succeeded and written pixels
C7_OneStrategyPerToken ==
    pc \in {"phase2", "done"} =>
        \A k \in 1..Len(writes) :
            ~(writes[k].blobSuccess /\ writes[k].blobWritten # {} /\ writes[k].rectApplied)

\* C8: once smartEraseAndReplace has returned, no replacement has been drawn
\* for a token for which neither the blob erasure nor the rectangle erased anything
C8_UnerasedNotDrawn ==
    pc = "done" =>
        \A k \in 1..Len(writes) :
            (~writes[k].blobSuccess /\ ~writes[k].rectApplied) =>
                \A n \in 1..Len(drawn) : drawn[n].k # k

\* all three channels of the background estimate are above 210
NearPureWhite(bgColor) == bgColor.r > 210 /\ bgColor.g > 210 /\ bgColor.b > 210

\* C9: whenever the background estimate of an erasure is near pure white, the
\* colour the erasure writes is pure white, for the blob erasure and for the
\* rectangle alike
C9_NearWhiteWritesWhite ==
    \A k \in 1..Len(writes) :
        /\ (writes[k].blobSuccess /\ NearPureWhite(writes[k].blobBackground))
               => writes[k].blobFill = White
        /\ (writes[k].rectApplied /\ NearPureWhite(writes[k].rectBackground))
               => writes[k].rectFill = White

\* C10: once smartEraseAndReplace has returned, the map gives, for the text of
\* every token a replacement was drawn for, the replacement drawn for that token
C10_MapIsWhatWasDrawn ==
    pc = "done" =>
        \A n \in 1..Len(drawn) :
            /\ drawInfos[drawn[n].k].detection.text \in DOMAIN replacements
            /\ replacements[drawInfos[drawn[n].k].detection.text] = drawn[n].text

\* ------------------------------------------------------------------------
\* Properties of the whole-value replacement generators
\* ------------------------------------------------------------------------

\* the generator has returned
Returned == policy # "none" /\ index > Len(numbers)

\* C11: every replacement returned by generateUniqueRandomReplacements or
\* generateRandomReplacements differs from its original, also when the
\* retries are used up
C11_ReplacementDiffers ==
    Returned => \A k \in 1..Len(result) : result[k].replacement # result[k].original

\* C12: within one call of generateUniqueRandomReplacements no two tokens
\* receive the same replacement string
C12_ReplacementsDistinct ==
    (Returned /\ policy = "unique") =>
        \A k, m \in 1..Len(result) : k # m => result[k].replacement # result[m].replacement

\* ------------------------------------------------------------------------
\* Properties of the rendered font size
\* ------------------------------------------------------------------------

\* the base font size mathLayout computes for the box of layoutInput
LayoutBaseFontSize ==
    calculateBaseFontSize(layoutInput[1].detection.bbox.height, layoutInput[1].minFontSize)

RecordCorners ==
    IF detectorRecord[1].route = "detect"
    THEN [x_min |-> detectorRecord[1].record.xmin, y_min |-> detectorRecord[1].record.ymin,
          x_max |-> detectorRecord[1].record.xmax, y_max |-> detectorRecord[1].record.ymax]
    ELSE detectorRecord[1].record.bbox_norm

\* C14: the conversion never rounds: x = x_min * W / scale,
\* width = (x_max - x_min) * W / scale, likewise y and height, are passed on
\* with their fractional part
C14_ConversionKeepsFractions ==
    converted # None =>
        LET rect == converted[1].rect
            corners == RecordCorners
        IN  /\ rect.x * 1000 = corners.x_min * CanvasSide * rect.d
            /\ rect.y * 1000 = corners.y_min * CanvasSide * rect.d
            /\ rect.width * 1000 = (corners.x_max - corners.x_min) * CanvasSide * rect.d
            /\ rect.height * 1000 = (corners.y_max - corners.y_min) * CanvasSide * rect.d

\* ------------------------------------------------------------------------
\* Properties of degenerate boxes
\* ------------------------------------------------------------------------

\* detection j has a width or height of 0 or less
Degenerate(j) == detections[j].bbox.width <= 0 \/ detections[j].bbox.height <= 0

\* the erasure records and the fillText calls that belong to detection j
ProcessedAs(j) == {k \in 1..Len(writes) : writes[k].idx = j}

DrawnAs(j) == {n \in 1..Len(drawn) : writes[drawn[n].k].idx = j}

PlainBaseline(n, preset) ==
    LET bbox == drawn[n].bbox
        b == drawn[n].baselineY
    IN  b.n * 100 * bbox.d
            = b.d * (100 * bbox.yn + bbox.height * BaselineOffset100(preset) * bbox.d)

\* accepted tokens of the call that carry none of the optional fields
Bare(j) ==
    /\ Accepted(j)
    /\ detections[j].role = Undefined
    /\ detections[j].fontStyle = Undefined
    /\ detections[j].baselineY = None
    /\ detections[j].charBboxes = None

\* C16: smartEraseAndReplace completes for tokens whose optional fields are
\* missing and draws them with the defaults: a token without role is drawn at
\* the base font size with no superscript or subscript shift, a token without
\* fontStyle is drawn with the gothic preset, a token without baselineY is
\* drawn on bbox.y + bbox.height * preset.baselineOffset, and a token without
\* charBboxes is drawn as one centered string; when the call has returned,
\* every accepted token with no optional field at all was drawn exactly once.
C16_DefaultsForMissingFields ==
    /\ \A n \in 1..Len(drawn) :
          LET info == drawInfos[drawn[n].k]
              detection == info.detection
          IN  /\ detection.role = Undefined =>
                    /\ drawn[n].fontSize10 = 10 * info.fontSize
                    /\ detection.baselineY = None => PlainBaseline(n, drawn[n].preset)
              /\ detection.fontStyle = Undefined =>
                    info.preset = "gothic" /\ drawn[n].preset = "gothic"
              /\ (detection.baselineY = None /\ RoleOf(detection) = "base") =>
                    PlainBaseline(n, drawn[n].preset)
              /\ detection.charBboxes = None => drawn[n].how = "drawCentered"
    /\ pc = "done" =>
          \A j \in 1..Len(detections) : Bare(j) => Cardinality(DrawnAs(j)) = 1

\* the call has returned after drawing a token that carried no optional field
C16_Witness ==
    /\ pc = "done"
    /\ \E j \in 1..Len(detections) :
          /\ Bare(j)
          /\ \E n \in DrawnAs(j) :
                drawn[n].preset = "gothic" /\ drawn[n].how = "drawCentered"

\* ------------------------------------------------------------------------
\* Properties of the editor's generate-and-verify loop
\* ------------------------------------------------------------------------

\* a run of generateWithVerification is between its first loop test and its return
Running == pcRun \in {"loop", "await"}

\* C17: one run of generateWithVerification makes at most MAX_RETRY_ATTEMPTS
\* generate-draw-verify cycles, whatever the verifier answers, and every run
\* that has started returns, leaving the editor state 'complete' or 'error'
C17_BoundedRetryLoop ==
    /\ [](/\ cycles <= MAX_RETRY_ATTEMPTS
          /\ retryAttempts = cycles
          /\ pcRun = "returned" => state \in {"complete", "error"})
    /\ (Running ~> pcRun = "returned")

\* a run has returned after the verifier rejected all three attempts
C17_Witness ==
    /\ pcRun = "returned"
    /\ cycles = MAX_RETRY_ATTEMPTS
    /\ ~isValid
    /\ state = "complete"

\* C18: whenever a verification is pending, the canvas shows the original
\* image and over it exactly the edits of the current attempt, one per
\* detected number, each with a value the generator produced for that number
\* in this attempt; nothing of an earlier attempt or an earlier run is left
C18_AttemptsIndependent ==
    pcRun = "await" =>
        /\ editorCanvas.image = originalImageRef
        /\ originalImageRef = Worksheet
        /\ Len(editorCanvas.edits) = Len(detectedNumbers)
        /\ Len(currentReplacements) = Len(detectedNumbers)
        /\ \A k \in 1..Len(detectedNumbers) :
              /\ editorCanvas.edits[k].bbox = detectedNumbers[k].bbox
              /\ editorCanvas.edits[k].text = currentReplacements[k].replacement
              /\ currentReplacements[k].replacement
                     \in generateRandomNumber(detectedNumbers[k].text)

\* the third attempt of a run awaits its verification
C18_Witness ==
    /\ pcRun = "await"
    /\ retryAttempts = MAX_RETRY_ATTEMPTS
    /\ Len(editorCanvas.edits) > 1
    /\ state = "verifying"

\* ------------------------------------------------------------------------
\* Properties of the safety filter as a function
\* ------------------------------------------------------------------------

PaddedBoxKeys(k) ==
    LET bbox == DetectionOf(k)
        n == options.padding
    IN  {key \in 0..(canvas.width * canvas.height - 1) :
            /\ key % canvas.width >= Floor(bbox.xn - n * bbox.d, bbox.d)
            /\ key % canvas.width < Ceil(bbox.xn + (bbox.width + n) * bbox.d, bbox.d)
            /\ key \div canvas.width >= Floor(bbox.yn - n * bbox.d, bbox.d)
            /\ key \div canvas.width < Ceil(bbox.yn + (bbox.height + n) * bbox.d, bbox.d)}

\* C20: by the time Phase 2 starts drawing, every processed token whose blob
\* erasure failed has had the rectangle filled over its box widened by the
\* padding, in the colour of the background estimate
C20_FallbackFillsAfterFailure ==
    pc \in {"phase2", "done"} =>
        \A k \in 1..Len(writes) :
            ~writes[k].blobSuccess =>
                /\ writes[k].rectApplied
                /\ PaddedBoxKeys(k) \subseteq writes[k].rectWritten
                /\ writes[k].rectFill =
                       EraseRectColor(writes[k].rectBackground, options.minBrightness)

\* ------------------------------------------------------------------------
\* Properties of complex roles behind the detect route
\* ------------------------------------------------------------------------

\* C21: a token the detector reported with a complex structural role is never
\* processed by the engine after parseDetectionResult: no erasure is made for
\* it, no replacement is set for it and nothing is drawn for it
C21_ComplexRoleNeverReplaced ==
    \A j \in 1..Len(reported) :
        reported[j].role \in COMPLEX_ROLES =>
            /\ ProcessedAs(j) = {}
            /\ DrawnAs(j) = {}

\* ------------------------------------------------------------------------
\* Properties of floodFillErase
\* ------------------------------------------------------------------------

\* the pixels of S that can be reached from the pixels of from by steps
\* between 8-neighbours inside S
RECURSIVE ReachIn(_, _)
ReachIn(S, from) ==
    LET next == {q \in S \ from : \E p \in from : Adjacent(p, q)}
    IN  IF next = {} THEN from ELSE ReachIn(S, from \cup next)

\* the accepted pixels of the returned result, as coordinates
AcceptedPixels ==
    LET w == floodCall[1].imageData.width
    IN  {<<key % w, key \div w>> : key \in floodReturn[1].result.erasedPixels}

\* luminance, in thousandths, of the pixel p of the image the call was given
GivenLuminance(p) ==
    LuminanceOf(floodCall[1].imageData.data[p[2] * floodCall[1].imageData.width + p[1]])

\* the floored centre of the box of the call
CallCentre ==
    LET bbox == floodCall[1].bbox
    IN  <<Floor(2 * bbox.xn + bbox.width * bbox.d, 2 * bbox.d),
          Floor(2 * bbox.yn + bbox.height * bbox.d, 2 * bbox.d)>>

\* four times the search radius max(3, min(width, height) / 4)
CallRadius4 == Max(12, Min(floodCall[1].bbox.width, floodCall[1].bbox.height))

\* the pixels of the image
CallPixels ==
    (0..(floodCall[1].imageData.width - 1)) \X (0..(floodCall[1].imageData.height - 1))

\* the pixels of the image within the search radius of the centre
WithinRadius ==
    {p \in CallPixels :
        /\ 4 * (p[1] - CallCentre[1]) \in (0 - CallRadius4)..CallRadius4
        /\ 4 * (p[2] - CallCentre[2]) \in (0 - CallRadius4)..CallRadius4}

\* the pixels of the image at the offsets -r, -r + 1, ... up to r from the
\* centre, each floored, that lie in the box widened by the padding
ScannedInPaddedBox ==
    LET bbox == floodCall[1].bbox
        n == floodCall[1].padding
        offsets == {Floor(4 * k - CallRadius4, 4) : k \in 0..(CallRadius4 \div 2)}
    IN  {p \in CallPixels :
            /\ p[1] - CallCentre[1] \in offsets
            /\ p[2] - CallCentre[2] \in offsets
            /\ p[1] >= Floor(bbox.xn - n * bbox.d, bbox.d)
            /\ p[1] <= Ceil(bbox.xn + (bbox.width + n) * bbox.d, bbox.d)
            /\ p[2] >= Floor(bbox.yn - n * bbox.d, bbox.d)
            /\ p[2] <= Ceil(bbox.yn + (bbox.height + n) * bbox.d, bbox.d)}

\* what the claim says of a returned call, the seed being the darkest of
\* the pixels of among
FloodContract(among) ==
    LET call == floodCall[1]
        ret == floodReturn[1]
        seed == <<ret.seed.x, ret.seed.y>>
    IN  /\ ret.imageData = call.imageData
        /\ ret.result.success =>
              /\ \A p \in AcceptedPixels : GivenLuminance(p) < 180 * 1000
              /\ seed \in AcceptedPixels
              /\ ReachIn(AcceptedPixels, {seed}) = AcceptedPixels
              /\ seed \in among
              /\ \A p \in among : GivenLuminance(seed) <= GivenLuminance(p)
              /\ 100 * Cardinality(AcceptedPixels)
                     >= Max(400, 5 * call.bbox.width * call.bbox.height)
        /\ ~ret.result.success => ret.result.erasedPixels = {}

\* C22 as stated: a successful floodFillErase accepts only pixels below the
\* ink threshold, its accepted set contains the seed and is 8-connected, the
\* seed is the darkest pixel within the search radius of the box centre, and
\* at least max(4, 5% of the box area) pixels are accepted; a failed call
\* accepts nothing; no call modifies the image
C22_FloodFillContract ==
    floodReturn # None => FloodContract(WithinRadius)

\* C22 amended: the same, with the seed being the darkest of the pixels the
\* search visits, which are the floored offsets -r, -r + 1, ... from the
\* floored centre that lie inside the box widened by the padding
C22_FloodFillContractScanned ==
    floodReturn # None => FloodContract(ScannedInPaddedBox)

\* a successful call whose seed is lighter than a pixel within the search
\* radius, that pixel lying outside the box widened by the padding
C22_Witness ==
    /\ floodReturn # None
    /\ floodReturn[1].result.success
    /\ \E p \in WithinRadius \ ScannedInPaddedBox :
          GivenLuminance(p) < floodReturn[1].seed.lum
\* ------------------------------------------------------------------------
\* Order of the two phases
\* ------------------------------------------------------------------------

\* C23: every erasure write, the write-back of the blob erasures and the
\* fallback rectangles alike, happens before the first replacement glyph is
\* drawn: a step that writes pixels is taken while nothing has been drawn,
\* and a glyph is drawn only once both erasure loops are over
C23_ErasureBeforeGlyphs ==
    [][/\ (canvas' # canvas \/ imageData' # imageData \/ writes' # writes)
            => (drawn = <<>> /\ drawn' = <<>>)
       /\ drawn' # drawn => (pc = "phase2" /\ UNCHANGED <<canvas, imageData, writes>>)]_vars

\* a finished call that wrote a blob erasure and a fallback rectangle and
\* drew two replacements
C23_Witness ==
    /\ pc = "done"
    /\ Len(drawn) = 2
    /\ \E k \in 1..Len(writes) : writes[k].blobChanged # {}
    /\ \E k \in 1..Len(writes) : writes[k].rectApplied /\ writes[k].rectChanged # {}
\* ------------------------------------------------------------------------
\* Font size of the drawn tokens
\* ------------------------------------------------------------------------

\* the height the font size of the detection in hand is computed from: the
\* height of the blob when the blob erasure succeeds, else that of the box
EffectiveHeightInHand ==
    LET bbox == detections[i].bbox
        blobResult == floodFillErase(imageData, bbox, PaddingFor(bbox))
    IN  IF blobResult.success /\ blobResult.erasedPixels # {}
        THEN blobResult.blobHeight ELSE bbox.height

\* C24: the base font size of every drawn token is
\* max(round(effectiveHeight * 0.75), minFontSize), the effective height
\* being the blob height when the blob erasure succeeded and the box height
\* otherwise, and no glyph is drawn below minFontSize
C24_BaseFontSize ==
    /\ [](\A j \in 1..Len(drawn) :
             /\ drawn[j].fontSize10 = 10 * drawInfos[drawn[j].k].fontSize
             /\ drawn[j].fontSize10 >= 10 * options.minFontSize)
    /\ [][Len(drawInfos') > Len(drawInfos) =>
             drawInfos'[Len(drawInfos')].fontSize
                 = Max(Round(3 * EffectiveHeightInHand, 4), options.minFontSize)]_vars

\* a finished call with minFontSize 1 that drew a token at size 1, from a
\* blob one pixel high, and a token at size 2, from its box two pixels high
C24_Witness ==
    /\ pc = "done"
    /\ options.minFontSize = 1
    /\ \E a, b \in 1..Len(drawn) :
          /\ writes[drawn[a].k].blobSuccess /\ drawn[a].fontSize10 = 10
          /\ ~writes[drawn[b].k].blobSuccess /\ drawn[b].fontSize10 = 20
\* ------------------------------------------------------------------------
\* Baseline of the drawn tokens
\* ------------------------------------------------------------------------

\* the baseline-offset ratio of a font style, in hundredths; gothic's when
\* no style is given
StyleRatio100(fontStyle) ==
    CASE fontStyle = "maru-gothic" -> 78
      [] fontStyle = "mincho" -> 82
      [] fontStyle = "handwritten" -> 75
      [] OTHER -> 80

\* the baseline the claim gives a token, as the fraction n / d: the detector's
\* baselineY when present, else bbox.y + bbox.height * ratio, moved up by
\* 0.35 * base font size for a superscript and down by 0.2 * base font size
\* for a subscript
ClaimedBaseline(bbox, baselineY, fontStyle, role, baseFontSize) ==
    LET d == 100 * bbox.d
        start == IF baselineY # None THEN baselineY[1] * d
                 ELSE 100 * bbox.yn + bbox.height * StyleRatio100(fontStyle) * bbox.d
    IN  [d |-> d,
         n |-> IF role = "sup" THEN start - 35 * baseFontSize * bbox.d
               ELSE IF role = "sub" THEN start + 20 * baseFontSize * bbox.d
               ELSE start]

\* the fractions a and b are equal
SameFraction(a, b) == a.n * b.d = b.n * a.d

\* C25: the drawing baseline of a token is the detector's baselineY when one
\* is present and bbox.y + bbox.height * the style's baseline-offset ratio
\* otherwise, shifted up by 0.35 * base font size for a superscript, down by
\* 0.2 * base font size for a subscript and not at all for a base token; for
\* the tokens the engine draws and for the tokens createLayoutToken lays out
C25_Baseline ==
    /\ \A n \in 1..Len(drawn) :
          LET info == drawInfos[drawn[n].k]
          IN  SameFraction(drawn[n].baselineY,
                           ClaimedBaseline(info.detection.bbox, info.detection.baselineY,
                                           info.detection.fontStyle,
                                           RoleOf(info.detection), info.fontSize))
    /\ layoutToken # None =>
          LET detection == layoutInput[1].detection
          IN  SameFraction([n |-> layoutToken[1].layoutY100, d |-> 100],
                           ClaimedBaseline(detection.bbox, detection.baselineY,
                                           detection.fontStyle, detection.role,
                                           Max(Round(9 * detection.bbox.height, 10),
                                               layoutInput[1].minFontSize)))

\* a mincho superscript laid out without a detector baseline, above the
\* plain baseline of its box
C25_Witness ==
    /\ layoutToken # None
    /\ layoutInput[1].detection.role = "sup"
    /\ layoutInput[1].detection.baselineY = None
    /\ layoutInput[1].detection.fontStyle = "mincho"
    /\ layoutToken[1].layoutY100
           < 100 * layoutInput[1].detection.bbox.yn
               + 82 * layoutInput[1].detection.bbox.height
\* ------------------------------------------------------------------------
\* Horizontal placement of the drawn characters
\* ------------------------------------------------------------------------

\* the distance from fillText call k to call k + 1 of the token drawn, in
\* hundredths of a pixel
StepBetween100(k) ==
    LET calls == fillTextCalls[1]
    IN  (100 * (calls[k + 1].xn - calls[k].xn)) \div calls[k].xd

\* the gap between the original characters k and k + 1 is given and positive
GapAvailable(k) ==
    LET boxes == drawCall[1].charBboxes[1]
    IN  k + 1 <= Len(boxes) /\ boxes[k + 1].xmin - boxes[k].xmin > 0

\* C26: a replacement of more than one character with charBoxes is drawn
\* one character at a time from left to right, character k + 1 being placed
\* at the position of character k plus the original gap
\* charBoxes[k + 1].xmin - charBoxes[k].xmin when that gap is available and
\* positive, and plus the measured glyph width + fontSize * letter-spacing
\* ratio otherwise; a single character and a token without charBoxes are
\* drawn as one string centred on the horizontal centre of the box
C26_CharacterPlacement ==
    fillTextCalls # None =>
        LET call == drawCall[1]
            calls == fillTextCalls[1]
        IN  IF Len(call.newNumber) > 1 /\ call.charBboxes # None
               /\ call.charBboxes[1] # <<>>
            THEN /\ Len(calls) = Len(call.newNumber)
                 /\ \A k \in 1..Len(calls) :
                       calls[k].text = <<call.newNumber[k]>> /\ calls[k].y = call.baselineY
                 /\ \A k \in 1..(Len(calls) - 1) :
                       /\ calls[k + 1].xd = calls[k].xd
                       /\ calls[k + 1].xn > calls[k].xn
                       /\ StepBetween100(k) =
                              IF GapAvailable(k)
                              THEN 100 * (call.charBboxes[1][k + 1].xmin
                                              - call.charBboxes[1][k].xmin)
                              ELSE call.fontSize * call.digitAdvance100
                                       + call.fontSize * LetterSpacing100(call.preset)
            ELSE /\ Len(calls) = 1
                 /\ calls[1].text = call.newNumber
                 /\ calls[1].y = call.baselineY
                 /\ 2 * 100 * calls[1].xn * call.bbox.d
                        + Len(call.newNumber) * call.fontSize * call.digitAdvance100
                              * calls[1].xd * call.bbox.d
                      = 100 * calls[1].xd * (2 * call.bbox.xn + call.bbox.width * call.bbox.d)

\* a two-digit replacement drawn over two charBoxes six pixels apart: the
\* second digit is six pixels to the right of the first
C26_Witness ==
    /\ fillTextCalls # None
    /\ Len(drawCall[1].newNumber) = 2
    /\ drawCall[1].charBboxes # None
    /\ Len(drawCall[1].charBboxes[1]) = 2
    /\ Len(fillTextCalls[1]) = 2
    /\ StepBetween100(1) = 600
\* ------------------------------------------------------------------------
\* Properties of useLocalStorageState
\* ------------------------------------------------------------------------

\* C27: useLocalStorageState never writes to localStorage before its initial
\* read of the key has completed, so that a stored value is never overwritten
\* by the default value: every setItem goes to a key that getItem has read,
\* and none replaces a stored value other than the default by the default,
\* whatever the order of mount, state updates and key changes
C27_NoWriteBeforeRead ==
    [][localStorage' # localStorage =>
          /\ hookKey \in hookReads
          /\ ~(/\ defaultParse(localStorage[hookKey], defaultValue) # defaultValue
               /\ localStorage'[hookKey] = defaultSerialize(defaultValue))]_vars
\* ------------------------------------------------------------------------
\* What the editor presents as complete
\* ------------------------------------------------------------------------

\* C28: whenever the editor is in state 'complete', the image on the canvas
\* was accepted by the verifier or its verification was skipped because the
\* verifier call failed (either sets isValid); a rejected image is never
\* presented as complete
C28_CompleteOnlyWhenAccepted ==
    state = "complete" => isValid
\* ------------------------------------------------------------------------
\* Detection and changes of imageFile
\* ------------------------------------------------------------------------

\* C29: if the imageFile prop changes while a detection is in flight, then
\* once every detection has returned the detected numbers, the canvas image
\* and originalImageRef are those of the newest image: a stale completion
\* never overwrites the newer run
C29_NewestImageWins ==
    (detectRuns # <<>> /\ \A r \in 1..Len(detectRuns) : detectRuns[r].at = "returned"
       /\ state = "detect-complete")
        => /\ detectedNumbers = RecognizedOn(imageFile)
           /\ editorCanvas.image = imageFile
           /\ originalImageRef = imageFile
\* ------------------------------------------------------------------------
\* Properties of the generate route
\* ------------------------------------------------------------------------

\* the models of GEMINI_MODEL_LIST
ListedModels == {GEMINI_MODEL_LIST[x] : x \in 1..Len(GEMINI_MODEL_LIST)}

\* every model call made so far failed with a rate-limit error
EveryAttemptRateLimited ==
    \A k \in 1..Len(tried) : ~tried[k].success /\ isRateLimitErrorMessage(tried[k].error)

\* C30: the generate route tries the models in priority order and stops at
\* the first success; when no model succeeds it answers 429 exactly when
\* every attempted model failed with a rate-limit error, and otherwise 404 or
\* 500 according to the last error; the client starts its 60-second wait
\* only when all models were rate limited
C30_ModelFallback ==
    /\ \A k \in 1..Len(tried) :
          /\ tried[k].model = modelsToTry[k]
          /\ tried[k].success => k = Len(tried) /\ response = Some(200)
    /\ \A model \in ListedModels :
          Cardinality({k \in 1..Len(modelsToTry) : modelsToTry[k] = model}) = 1
    /\ \A a, b \in 2..Len(modelsToTry) :
          (a < b /\ modelsToTry[a] \in ListedModels /\ modelsToTry[b] \in ListedModels)
              => \E x, y \in 1..Len(GEMINI_MODEL_LIST) :
                    /\ x < y
                    /\ GEMINI_MODEL_LIST[x] = modelsToTry[a]
                    /\ GEMINI_MODEL_LIST[y] = modelsToTry[b]
    /\ response # None =>
          IF \E k \in 1..Len(tried) : tried[k].success
          THEN response[1] = 200
          ELSE /\ Len(tried) = Len(modelsToTry)
               /\ response[1] = 429 <=> EveryAttemptRateLimited
               /\ response[1] # 429 =>
                     response[1] = (IF tried[Len(tried)].error \cap {"404", "not found"} # {}
                                    THEN 404 ELSE 500)
    /\ waitSeconds # 0 =>
          /\ waitSeconds = 60
          /\ Len(tried) = Len(modelsToTry)
          /\ EveryAttemptRateLimited
    /\ pcPost = "received" => (waitSeconds = 60 <=> response[1] = 429)

\* every model was rate limited, the route answered 429 and the client has
\* started its wait
C30_Witness ==
    /\ pcPost = "received"
    /\ Len(tried) = 4
    /\ EveryAttemptRateLimited
    /\ response = Some(429)
    /\ waitSeconds = 60


====
